---- MODULE Spec2Model ----
(***************************************************************************)
(* One-Shield sequence anomaly-detection engine.                           *)
(*                                                                         *)
(* prog = "predict": one run of assets/scripts/predict.py main().          *)
(* prog = "train"  : one run of assets/scripts/train.py main().            *)
(* prog = "export" : one run of assets/scripts/export_model.py main().     *)
(* prog = "quick"  : one run of assets/scripts/quick_export.py main().     *)
(* prog = "calls"  : concurrent scoring calls (SpecCalls).                  *)
(* prog = "calibrate": calls of calculate_threshold (SpecCalibrate).        *)
(* prog = "load"   : ai-trainer/train.py load_data (SpecLoad).              *)
(* prog = "fit"    : assets/scripts/train.py train_model (SpecFit).         *)
(* prog = "normalize": normalize_features, then normalize_sequence and the  *)
(*                   tensor conversion on the same corpus (SpecNormalize).  *)
(*                                                                         *)
(* Floats are exact rationals <<n, d>> with d >= 0; d = 0 encodes the IEEE *)
(* specials (<<1,0>> = inf, <<0,0>> = nan).  Raw telemetry values are in   *)
(* tenths (den 10).  The autoencoder's reconstruction error is not         *)
(* computed: it is any value mse >= 0 drawn from a bounded grid.           *)
(***************************************************************************)
EXTENDS Integers, Sequences, FiniteSets, TLC

VARIABLES
    prog,           \* which entry point this behaviour runs
    pc,             \* position inside main()
    fs,             \* the file at the model path
    model_path,     \* predict.main: model_path (a record: given or not)
    sequence_data,  \* predict.main: the decoded JSON value
    sequence,       \* predict.main: the numpy array `sequence`
    loaded,         \* predict.main: (config, threshold, normalization)
    window,         \* predict_anomaly: the array handed to the autoencoder
    result,         \* predict.main: the dict `result`
    emitted,        \* what was printed / written as the reply
    targs,          \* train.main: args.sequence_length
    raw_data,       \* train.main: raw_data (N x F)
    tnorm,          \* train.main: (normalized_data, min_vals, max_vals)
    sequences,      \* train.main: sequences
    margs,          \* train.main: args.model_type and the args.*_dim / num_layers
    tsplit,         \* train.main: split_idx
    tfit,           \* train.main: (history, threshold)
    xargs,          \* export_model.main: args.format
    graph,          \* the exported graph file
    sidecar,        \* the metadata file next to the graph
    files,          \* concurrent scoring: the package file at each path
    calls,          \* concurrent scoring: each call's request and position
    frames,         \* concurrent scoring: the local variables of each call
    all_errors,     \* calculate_threshold: all_errors
    thresholds,     \* calculate_threshold: the value returned for each percentile
    jsonl,          \* ai-trainer load_data: the file at file_path
    lineno,         \* ai-trainer load_data: lines of the file consumed so far
    ldata,          \* ai-trainer load_data: the list `data`
    lpc,            \* ai-trainer load_data: position
    fargs,          \* train_model: epochs, learning_rate, val_loader and the data
    epoch,          \* train_model: epochs completed (the next value of `epoch`)
    history,        \* train_model: history
    lr,             \* train_model: the optimizer's learning rate
    scheduler,      \* train_model: the ReduceLROnPlateau object
    fpc,            \* train_model: position
    ncorpus,        \* normalization: the corpus as the JSON file holds it
    nfit,           \* normalization: what normalize_features returned
    ninfer,         \* normalization: the tensor built for each corpus vector
    npc             \* normalization: position

vars == <<prog, pc, fs, model_path, sequence_data, sequence, loaded, window,
          result, emitted, targs, raw_data, tnorm, sequences, margs, tsplit, tfit,
          xargs, graph, sidecar, files, calls, frames,
          all_errors, thresholds, jsonl, lineno, ldata, lpc,
          fargs, epoch, history, lr, scheduler, fpc,
          ncorpus, nfit, ninfer, npc>>

predictVars == <<model_path, sequence_data, sequence, loaded, window, result, emitted>>
trainVars == <<targs, raw_data, tnorm, sequences, margs, tsplit, tfit>>
exportVars == <<xargs, graph, sidecar>>
callVars == <<files, calls, frames>>
calibrateVars == <<all_errors, thresholds>>
loadVars == <<jsonl, lineno, ldata, lpc>>
fitVars == <<fargs, epoch, history, lr, scheduler, fpc>>
normVars == <<ncorpus, nfit, ninfer, npc>>

\* the variables of the entry points a run of one script does not touch
otherVars == <<callVars, calibrateVars, loadVars, fitVars, normVars>>

----------------------------------------------------------------------------
(* Program constants *)

FEATURE_COUNT == 15
DEFAULT_SEQUENCE_LENGTH == 5
DEFAULT_HIDDEN_DIM == 64
DEFAULT_LATENT_DIM == 32
DEFAULT_NUM_LAYERS == 2
DEFAULT_EPOCHS == 100
PATIENCE == 10

(* Bounds of the model *)

MaxHist == 8        \* longest supplied history (rows of the request)
MaxSeqLen == 5      \* largest configured sequence_length
MaxErrNum == 5      \* reconstruction errors are 0/20 .. MaxErrNum/20
MaxN == 7           \* largest training corpus

----------------------------------------------------------------------------
(* Float arithmetic on <<n, d>> *)

Zero == <<0, 1>>
One == <<1, 1>>
Half == <<1, 2>>
DEFAULT_THRESHOLD == <<7, 10>>

Raw(v) == <<v, 10>>

IsNaN(a) == a[1] = 0 /\ a[2] = 0

RLess(a, b) == ~IsNaN(a) /\ ~IsNaN(b) /\ a[1] * b[2] < b[1] * a[2]

REq(a, b) == ~IsNaN(a) /\ ~IsNaN(b) /\ a[1] * b[2] = b[1] * a[2]

RECURSIVE Gcd(_, _)
Gcd(a, b) == IF b = 0 THEN a ELSE Gcd(b, a % b)

\* the same value in lowest terms (inf, -inf and nan as <<1,0>>, <<-1,0>>, <<0,0>>)
Reduce(a) ==
    IF a[2] = 0 THEN <<IF a[1] > 0 THEN 1 ELSE IF a[1] < 0 THEN 0 - 1 ELSE 0, 0>>
    ELSE LET g == Gcd(IF a[1] < 0 THEN 0 - a[1] ELSE a[1], a[2])
         IN  <<a[1] \div g, a[2] \div g>>

RAdd(a, b) == Reduce(<<a[1] * b[2] + b[1] * a[2], a[2] * b[2]>>)

RSub(a, b) == Reduce(<<a[1] * b[2] - b[1] * a[2], a[2] * b[2]>>)

RMul(a, b) == Reduce(<<a[1] * b[1], a[2] * b[2]>>)

RDiv(a, b) ==
    IF b[1] < 0 THEN Reduce(<<(0 - a[1]) * b[2], a[2] * (0 - b[1])>>)
    ELSE Reduce(<<a[1] * b[2], a[2] * b[1]>>)

RAbs(a) == IF a[1] < 0 THEN <<0 - a[1], a[2]>> ELSE a

\* Python's min(x, y): y if y < x else x
PyMin(x, y) == IF RLess(y, x) THEN y ELSE x

\* Python's max(x, y): y if y > x else x
PyMax(x, y) == IF RLess(x, y) THEN y ELSE x

\* the clip left out
ClipNone(x) == x

\* np.clip(x, 0, 1) on one element
Clip01(x) == IF RLess(x, Zero) THEN Zero ELSE IF RLess(One, x) THEN One ELSE x

----------------------------------------------------------------------------
(* Tagged Python values, as json.dumps sees them *)

PyFloat(r) == [t |-> "float", v |-> r]
PyBool(b) == [t |-> "bool", v |-> b]
NpBool(b) == [t |-> "numpy.bool_", v |-> b]
PyStr(s) == [t |-> "str", v |-> s]
PyNone == [t |-> "NoneType", v |-> "None"]

\* json.dumps(result): raises TypeError on a value json cannot encode
JsonDumpsOk(r) == \A k \in DOMAIN r : r[k].t \in {"float", "bool", "str", "NoneType"}

----------------------------------------------------------------------------
(* numpy arrays: [shape, rows]; rows lists the vectors along the last axis  *)
(* (a 0-d array holds one vector of one element)                            *)

NaN == <<0, 0>>

Ndim(a) == Len(a.shape)

LastDim(a) == IF Ndim(a) = 0 THEN 1 ELSE a.shape[Ndim(a)]

\* np.array(sequence_data, dtype=np.float32)
NpArray(sd) ==
    CASE sd.kind = "none"   -> [ok |-> TRUE, shape |-> <<>>, rows |-> <<<<NaN>>>>]
      [] sd.kind = "scalar" -> [ok |-> TRUE, shape |-> <<>>, rows |-> sd.rows]
      [] sd.kind = "list1"  -> [ok |-> TRUE, shape |-> <<Len(sd.rows[1])>>, rows |-> sd.rows]
      [] sd.kind = "list2"  ->
            [ok |-> TRUE, shape |-> <<Len(sd.rows), Len(sd.rows[1])>>, rows |-> sd.rows]
      [] sd.kind = "list3"  ->
            [ok |-> TRUE, shape |-> <<1, Len(sd.rows), Len(sd.rows[1])>>, rows |-> sd.rows]
      [] OTHER              -> [ok |-> FALSE, shape |-> <<>>, rows |-> <<>>]

\* if len(sequence.shape) == 1: sequence = sequence.reshape(1, -1)
Ensure2D(a) ==
    IF Ndim(a) = 1 THEN [shape |-> <<1, a.shape[1]>>, rows |-> a.rows]
    ELSE [shape |-> a.shape, rows |-> a.rows]

----------------------------------------------------------------------------
(* The autoencoders of the four scripts.  A model is what the scripts can   *)
(* tell apart: the constructor arguments, the entries of state_dict()       *)
(* (<<module, parameter, layer, shape>>) and the steps of forward().        *)
(* Dropout is left out: every load is followed by model.eval().             *)

\* parameters of nn.LSTM (gates = 4) and nn.GRU (gates = 3), batch_first
RnnParams(prefix, gates, input_size, hidden_size, num_layers) ==
    UNION {{<<prefix, "weight_ih_l", k,
              <<gates * hidden_size, IF k = 0 THEN input_size ELSE hidden_size>>>>,
            <<prefix, "weight_hh_l", k, <<gates * hidden_size, hidden_size>>>>,
            <<prefix, "bias_ih_l", k, <<gates * hidden_size>>>>,
            <<prefix, "bias_hh_l", k, <<gates * hidden_size>>>>} :
           k \in 0..(num_layers - 1)}

\* parameters of nn.Linear(in_features, out_features)
LinearParams(prefix, in_features, out_features) ==
    {<<prefix, "weight", 0, <<out_features, in_features>>>>,
     <<prefix, "bias", 0, <<out_features>>>>}

\* train.py lines 109-239
TrainLSTMAutoEncoder(c) ==
    [input_dim |-> c.input_dim, sequence_length |-> c.sequence_length,
     state_dict |->
        RnnParams("encoder.lstm", 4, c.input_dim, c.hidden_dim, c.num_layers)
        \cup LinearParams("encoder.fc_latent", c.hidden_dim, c.latent_dim)
        \cup LinearParams("decoder.fc_hidden", c.latent_dim, c.hidden_dim * c.num_layers)
        \cup LinearParams("decoder.fc_cell", c.latent_dim, c.hidden_dim * c.num_layers)
        \cup RnnParams("decoder.lstm", 4, c.latent_dim, c.hidden_dim, c.num_layers)
        \cup LinearParams("decoder.fc_output", c.hidden_dim, c.input_dim),
     forward |-> [latent |-> "fc_latent(hidden[-1])",
                  decoder_state |-> {"fc_hidden(latent)", "fc_cell(latent)"},
                  decoder_input |-> "latent.repeat(x.size(1))",
                  output |-> "fc_output(output)"],
     reconstruction_error |-> [of |-> "(x - reconstructed) ** 2", mean_over |-> {1, 2}]]

\* train.py lines 246-311
TrainGRUAutoEncoder(c) ==
    [input_dim |-> c.input_dim, sequence_length |-> c.sequence_length,
     state_dict |->
        RnnParams("encoder_gru", 3, c.input_dim, c.hidden_dim, c.num_layers)
        \cup LinearParams("fc_latent", c.hidden_dim, c.latent_dim)
        \cup LinearParams("fc_hidden", c.latent_dim, c.hidden_dim * c.num_layers)
        \cup RnnParams("decoder_gru", 3, c.latent_dim, c.hidden_dim, c.num_layers)
        \cup LinearParams("fc_output", c.hidden_dim, c.input_dim),
     forward |-> [latent |-> "fc_latent(hidden[-1])",
                  decoder_state |-> {"fc_hidden(latent)"},
                  decoder_input |-> "latent.repeat(x.size(1))",
                  output |-> "fc_output(output)"],
     reconstruction_error |-> [of |-> "(x - reconstructed) ** 2", mean_over |-> {1, 2}]]

\* predict.py lines 49-133
PredictLSTMAutoEncoder(c) ==
    [input_dim |-> c.input_dim, sequence_length |-> c.sequence_length,
     state_dict |->
        RnnParams("encoder.lstm", 4, c.input_dim, c.hidden_dim, c.num_layers)
        \cup LinearParams("encoder.fc_latent", c.hidden_dim, c.latent_dim)
        \cup LinearParams("decoder.fc_hidden", c.latent_dim, c.hidden_dim * c.num_layers)
        \cup LinearParams("decoder.fc_cell", c.latent_dim, c.hidden_dim * c.num_layers)
        \cup RnnParams("decoder.lstm", 4, c.latent_dim, c.hidden_dim, c.num_layers)
        \cup LinearParams("decoder.fc_output", c.hidden_dim, c.input_dim),
     forward |-> [latent |-> "fc_latent(hidden[-1])",
                  decoder_state |-> {"fc_hidden(latent)", "fc_cell(latent)"},
                  decoder_input |-> "latent.repeat(x.size(1))",
                  output |-> "fc_output(output)"],
     reconstruction_error |-> [of |-> "(x - reconstructed) ** 2", mean_over |-> {1, 2}]]

\* predict.py lines 136-188
PredictGRUAutoEncoder(c) ==
    [input_dim |-> c.input_dim, sequence_length |-> c.sequence_length,
     state_dict |->
        RnnParams("encoder_gru", 3, c.input_dim, c.hidden_dim, c.num_layers)
        \cup LinearParams("fc_latent", c.hidden_dim, c.latent_dim)
        \cup LinearParams("fc_hidden", c.latent_dim, c.hidden_dim * c.num_layers)
        \cup RnnParams("decoder_gru", 3, c.latent_dim, c.hidden_dim, c.num_layers)
        \cup LinearParams("fc_output", c.hidden_dim, c.input_dim),
     forward |-> [latent |-> "fc_latent(hidden[-1])",
                  decoder_state |-> {"fc_hidden(latent)"},
                  decoder_input |-> "latent.repeat(x.size(1))",
                  output |-> "fc_output(output)"],
     reconstruction_error |-> [of |-> "(x - reconstructed) ** 2", mean_over |-> {1, 2}]]

\* export_model.py lines 41-118
ExportLSTMAutoEncoder(c) ==
    [input_dim |-> c.input_dim, sequence_length |-> c.sequence_length,
     state_dict |->
        RnnParams("encoder.lstm", 4, c.input_dim, c.hidden_dim, c.num_layers)
        \cup LinearParams("encoder.fc_latent", c.hidden_dim, c.latent_dim)
        \cup LinearParams("decoder.fc_hidden", c.latent_dim, c.hidden_dim * c.num_layers)
        \cup LinearParams("decoder.fc_cell", c.latent_dim, c.hidden_dim * c.num_layers)
        \cup RnnParams("decoder.lstm", 4, c.latent_dim, c.hidden_dim, c.num_layers)
        \cup LinearParams("decoder.fc_output", c.hidden_dim, c.input_dim),
     forward |-> [latent |-> "fc_latent(hidden[-1])",
                  decoder_state |-> {"fc_hidden(latent)", "fc_cell(latent)"},
                  decoder_input |-> "latent.repeat(x.size(1))",
                  output |-> "fc_output(output)"]]

\* export_model.py lines 121-166
ExportGRUAutoEncoder(c) ==
    [input_dim |-> c.input_dim, sequence_length |-> c.sequence_length,
     state_dict |->
        RnnParams("encoder_gru", 3, c.input_dim, c.hidden_dim, c.num_layers)
        \cup LinearParams("fc_latent", c.hidden_dim, c.latent_dim)
        \cup LinearParams("fc_hidden", c.latent_dim, c.hidden_dim * c.num_layers)
        \cup RnnParams("decoder_gru", 3, c.latent_dim, c.hidden_dim, c.num_layers)
        \cup LinearParams("fc_output", c.hidden_dim, c.input_dim),
     forward |-> [latent |-> "fc_latent(hidden[-1])",
                  decoder_state |-> {"fc_hidden(latent)"},
                  decoder_input |-> "latent.repeat(x.size(1))",
                  output |-> "fc_output(output)"]]

\* quick_export.py lines 16-87 (the script defines no GRU class)
QuickLSTMAutoEncoder(c) ==
    [input_dim |-> c.input_dim, sequence_length |-> c.sequence_length,
     state_dict |->
        RnnParams("encoder.lstm", 4, c.input_dim, c.hidden_dim, c.num_layers)
        \cup LinearParams("encoder.fc_latent", c.hidden_dim, c.latent_dim)
        \cup LinearParams("decoder.fc_hidden", c.latent_dim, c.hidden_dim * c.num_layers)
        \cup LinearParams("decoder.fc_cell", c.latent_dim, c.hidden_dim * c.num_layers)
        \cup RnnParams("decoder.lstm", 4, c.latent_dim, c.hidden_dim, c.num_layers)
        \cup LinearParams("decoder.fc_output", c.hidden_dim, c.input_dim),
     forward |-> [latent |-> "fc_latent(hidden[-1])",
                  decoder_state |-> {"fc_hidden(latent)", "fc_cell(latent)"},
                  decoder_input |-> "latent.repeat(x.size(1))",
                  output |-> "fc_output(output)"]]

----------------------------------------------------------------------------
(* The model package on disk and load_model.  A checkpoint is               *)
(* [model_type, config, threshold, normalization, model_state_dict]; every  *)
(* entry but the weights is optional (<<>> = key absent), and so is every   *)
(* field of config.                                                         *)

\* dict.get(key, default) on an optional entry (<<>> = key absent)
Get(opt, default) == IF Len(opt) = 0 THEN default ELSE opt[1]

ConstVec(x, k) == [i \in 1..k |-> x]

DefaultNormalization ==
    [min_vals |-> ConstVec(Zero, FEATURE_COUNT), max_vals |-> ConstVec(One, FEATURE_COUNT)]

\* checkpoint.get('config', {})
EmptyConfig ==
    [input_dim |-> <<>>, hidden_dim |-> <<>>, latent_dim |-> <<>>, num_layers |-> <<>>,
     sequence_length |-> <<>>]

\* predict.py lines 207-221: the model load_model builds
PredictModel(pkg) ==
    LET model_type == Get(pkg.model_type, "lstm")
        config == Get(pkg.config, EmptyConfig)
        c == [input_dim |-> Get(config.input_dim, FEATURE_COUNT),
              hidden_dim |-> Get(config.hidden_dim, 64),
              latent_dim |-> Get(config.latent_dim, 32),
              num_layers |-> Get(config.num_layers, 2),
              sequence_length |-> Get(config.sequence_length, DEFAULT_SEQUENCE_LENGTH)]
    IN  IF model_type = "lstm" THEN PredictLSTMAutoEncoder(c) ELSE PredictGRUAutoEncoder(c)

\* model.load_state_dict(state_dict), strict: the keys and shapes must be the model's
LoadStateDictOk(model, state_dict) == model.state_dict = state_dict

\* (config, threshold, normalization) as load_model returns them; ok = FALSE
\* when load_state_dict raised
LoadModel(pkg) ==
    [ok |-> LoadStateDictOk(PredictModel(pkg), pkg.model_state_dict),
     config |-> Get(pkg.config, EmptyConfig),
     threshold |-> Get(pkg.threshold, [v |-> DEFAULT_THRESHOLD, np |-> FALSE]),
     normalization |-> Get(pkg.normalization, DefaultNormalization)]

NotLoaded == [ok |-> FALSE]

----------------------------------------------------------------------------
(* normalize_sequence, statement by statement over named objects           *)

\* the object that  range_arr = max_arr - min_arr  binds range_arr to: a new
\* array (RangeObjectInPlace: the subtraction done in place on the caller's
\* max_vals)
RangeObjectInPlace == "max_vals"

RangeObject == "range_arr"

\* broadcast of a (.., f) array against a (k,) array
Broadcastable(f, k) == f = k \/ f = 1 \/ k = 1

BroadcastShape(shape, k) ==
    IF Len(shape) = 0 THEN <<k>>
    ELSE [i \in 1..Len(shape) |->
            IF i = Len(shape) /\ shape[i] = 1 THEN k ELSE shape[i]]

At(vec, i) == IF Len(vec) = 1 THEN vec[1] ELSE vec[i]

\* every vector taken relative to the first vector of the array instead of
\* min_arr
NormalizedRowsFromFirst(rows, min_arr, range_arr, w) ==
    [r \in 1..Len(rows) |->
        [i \in 1..w |->
            Clip01(RDiv(RSub(At(rows[r], i), At(rows[1], i)), At(range_arr, i)))]]

\* normalized = (sequence - min_arr) / range_arr ; np.clip(normalized, 0, 1)
NormalizedRows(rows, min_arr, range_arr, w) ==
    [r \in 1..Len(rows) |->
        [i \in 1..w |->
            Clip01(RDiv(RSub(At(rows[r], i), At(min_arr, i)), At(range_arr, i)))]]

\* the objects after lines 236-240
NormalizeHeap(min_vals, max_vals) ==
    LET h0 == [o \in {"min_vals", "max_vals"} |->
                  IF o = "min_vals" THEN min_vals ELSE max_vals]
        \* min_arr = np.array(min_vals); max_arr = np.array(max_vals)
        h1 == ("min_arr" :> h0["min_vals"]) @@ h0
        h2 == ("max_arr" :> h1["max_vals"]) @@ h1
        \* range_arr = max_arr - min_arr
        h3 == (RangeObject :>
                  [i \in 1..Len(h2["min_arr"]) |->
                      RSub(h2["max_arr"][i], h2["min_arr"][i])]) @@ h2
    IN  \* range_arr[range_arr == 0] = 1
        [h3 EXCEPT ![RangeObject] =
            [i \in 1..Len(h3["min_arr"]) |-> IF REq(@[i], Zero) THEN One ELSE @[i]]]

NormalizeSequence(seq, min_vals, max_vals) ==
    LET h == NormalizeHeap(min_vals, max_vals)
        k == Len(h["min_arr"])
        f == LastDim(seq)
    IN  [raised |-> ~Broadcastable(f, k),
         value |->
            IF Broadcastable(f, k)
            THEN [shape |-> BroadcastShape(seq.shape, k),
                  rows |-> NormalizedRows(seq.rows, h["min_arr"], h[RangeObject],
                                          IF f = 1 THEN k ELSE f)]
            ELSE seq,
         min_vals |-> h["min_vals"],
         max_vals |-> h["max_vals"]]

----------------------------------------------------------------------------
(* predict_anomaly *)

\* sequence[:L] instead of sequence[-L:]
PadOrTruncateHead(rows, L) ==
    IF Len(rows) < L THEN rows \o [j \in 1..(L - Len(rows)) |-> rows[Len(rows)]]
    ELSE SubSeq(rows, 1, L)

\* lines 269-276: pad with the last vector, or keep the last L vectors
PadOrTruncate(rows, L) ==
    IF Len(rows) < L
    THEN rows \o [j \in 1..(L - Len(rows)) |-> rows[Len(rows)]]
    ELSE IF Len(rows) > L
         THEN SubSeq(rows, Len(rows) - L + 1, Len(rows))
         ELSE rows

\* mse >= threshold instead of mse > threshold
IsAnomalyInclusive(mse, t) == ~RLess(mse, t)

\* is_anomaly = mse > threshold
IsAnomaly(mse, t) == RLess(t, mse)

\* mse / (threshold * 3) instead of mse / (threshold * 2)
ScoreOfThirds(mse, t) == PyMin(One, RDiv(mse, RMul(t, <<3, 1>>)))

\* score = min(1.0, mse / (threshold * 2))
ScoreOf(mse, t) == PyMin(One, RDiv(mse, RMul(t, <<2, 1>>)))

\* confidence = min(1.0, 0.5 + (abs(mse - threshold) / threshold) * 0.5)
ConfidenceOf(mse, t) ==
    PyMin(One, RAdd(Half, RMul(RDiv(RAbs(RSub(mse, t)), t), Half)))

\* float / float raises ZeroDivisionError; a numpy scalar divisor yields inf or nan
DivisionRaises(threshold) == ~threshold.np /\ threshold.v[1] = 0

ShapeError(msg) == [error |-> PyStr(msg)]

PredictAnomaly(seq, threshold, config, mse) ==
    LET expected_length == Get(config.sequence_length, DEFAULT_SEQUENCE_LENGTH)
        t == threshold.v
    IN  IF Ndim(seq) # 2
        THEN [raised |-> FALSE, window |-> <<>>,
              result |-> ShapeError("Invalid sequence shape")]
        ELSE IF seq.shape[2] # FEATURE_COUNT
        THEN [raised |-> FALSE, window |-> <<>>,
              result |-> ShapeError("Invalid features")]
        ELSE IF DivisionRaises(threshold)
        THEN [raised |-> TRUE, window |-> PadOrTruncate(seq.rows, expected_length),
              result |-> [error |-> PyStr("float division by zero")]]
        ELSE [raised |-> FALSE, window |-> PadOrTruncate(seq.rows, expected_length),
              result |->
                [score |-> PyFloat(ScoreOf(mse, t)),
                 is_anomaly |-> PyBool(IsAnomaly(mse, t)),
                 confidence |-> PyFloat(ConfidenceOf(mse, t)),
                 raw_mse |-> PyFloat(mse),
                 threshold |-> PyFloat(t)]]

----------------------------------------------------------------------------
(* simple_predict *)

\* the 15 static thresholds of lines 328-344, in tenths
HeuristicThresholds ==
    <<500, 800, 5000, 10000, 150, 150, 100, 100, 1000, 9, 2, 2, 3, 100, 10>>

\* lines 352-356; acc.np: max_excess holds a numpy scalar (an `excess`), not 0.0
RECURSIVE HeuristicLoop(_, _, _)
HeuristicLoop(last_values, i, acc) ==
    IF i > Len(last_values) THEN acc
    ELSE IF i <= Len(HeuristicThresholds)
            /\ RLess(Raw(HeuristicThresholds[i]), last_values[i])
         THEN LET th == Raw(HeuristicThresholds[i])
                  excess == RDiv(RSub(last_values[i], th), th)
              IN  HeuristicLoop(last_values, i + 1,
                    [anomaly_count |-> acc.anomaly_count + 1,
                     max_excess |-> PyMax(acc.max_excess, excess),
                     np |-> acc.np \/ RLess(acc.max_excess, excess)])
         ELSE HeuristicLoop(last_values, i + 1, acc)

\* the trend rule firing on a bare majority of the features
TrendPenaltyMajority(rows) ==
    IF Len(rows) > 1
    THEN LET last == rows[Len(rows)]
             first == rows[1]
             increasing == Cardinality({i \in 1..Len(last) :
                                          RLess(Zero, RSub(last[i], first[i]))})
         IN  IF 10 * increasing > 5 * FEATURE_COUNT THEN 2 ELSE 0
    ELSE 0

\* lines 359-363
TrendPenalty(rows) ==
    IF Len(rows) > 1
    THEN LET last == rows[Len(rows)]
             first == rows[1]
             increasing == Cardinality({i \in 1..Len(last) :
                                          RLess(Zero, RSub(last[i], first[i]))})
         IN  IF 10 * increasing > 7 * FEATURE_COUNT THEN 2 ELSE 0
    ELSE 0

\* "is_anomaly": score > 0.6  (a numpy.bool_ when score is a numpy scalar)
HeuristicVerdict(score, is_np) ==
    IF is_np THEN NpBool(RLess(<<6, 10>>, score)) ELSE PyBool(RLess(<<6, 10>>, score))

\* anomaly_count and max_excess when line 366 is reached
HeuristicCounters(seq) ==
    LET acc == HeuristicLoop(seq.rows[Len(seq.rows)], 1,
                    [anomaly_count |-> 0, max_excess |-> Zero, np |-> FALSE])
    IN  [acc EXCEPT !.anomaly_count = @ + TrendPenalty(seq.rows)]

\* the sum left unclamped
HeuristicScoreUnclamped(anomaly_count, max_excess) ==
    RAdd(<<anomaly_count, 10>>, RMul(max_excess, <<3, 10>>))

\* line 366: score = min(1.0, anomaly_count / 10 + max_excess * 0.3)
HeuristicScore(anomaly_count, max_excess) ==
    PyMin(One, RAdd(<<anomaly_count, 10>>, RMul(max_excess, <<3, 10>>)))

SimplePredict(seq) ==
    IF Ndim(seq) # 2
    THEN [error |-> PyStr("Invalid sequence"), score |-> PyFloat(Zero),
          is_anomaly |-> PyBool(FALSE)]
    ELSE LET acc == HeuristicCounters(seq)
             score == HeuristicScore(acc.anomaly_count, acc.max_excess)
             is_np == acc.np /\ RLess(score, One)
         IN  [score |-> PyFloat(score),
              is_anomaly |-> HeuristicVerdict(score, is_np),
              confidence |-> PyFloat(Half),
              raw_mse |-> PyNone,
              method |-> PyStr("heuristic")]

----------------------------------------------------------------------------
(* Requests and model packages the runs are given *)

Kinds == {"zero", "ramp", "fall", "flat", "spike", "mild", "creep", "drift"}

\* the features that rise in a "creep" history (11 of 15) and in a "drift"
\* history (10 of 15)
Creeping == (1..9) \cup {14, 15}

Drifting == (2..9) \cup {14, 15}

\* feature i of row j of an n-row history, in tenths
RowVal(kind, j, n, i) ==
    CASE kind = "zero"  -> 0
      [] kind = "ramp"  -> 10 * j + i
      [] kind = "fall"  -> 10 * (n - j + 1) + i
      [] kind = "flat"  -> 12
      [] kind = "mild"  -> IF i = 1 THEN 600 ELSE 0
      [] kind = "creep" -> IF i \in Creeping THEN 5 * j ELSE 0
      [] kind = "drift" -> IF i \in Drifting THEN 4 * j ELSE 0
      [] kind = "partial" -> IF i % 2 = 1 THEN 12 ELSE 10 * j + i
      [] kind = "spike" ->
            IF j < n THEN 0
            ELSE IF i <= Len(HeuristicThresholds) THEN 2 * HeuristicThresholds[i] ELSE 7

Hist(kind, n, f) == [j \in 1..n |-> [i \in 1..f |-> Raw(RowVal(kind, j, n, i))]]

FeatureCounts == {0, 1, FEATURE_COUNT - 1, FEATURE_COUNT, FEATURE_COUNT + 1}

SeqDatas ==
    {[kind |-> "none", rows |-> <<>>],
     [kind |-> "bad", rows |-> <<>>],
     [kind |-> "scalar", rows |-> <<<<Raw(3)>>>>],
     [kind |-> "list3", rows |-> Hist("ramp", 2, FEATURE_COUNT)],
     [kind |-> "list3", rows |-> Hist("ramp", 2, 1)]}
    \cup {[kind |-> "list1", rows |-> Hist("ramp", 1, f)] : f \in {0, 1, FEATURE_COUNT}}
    \cup {[kind |-> "list2", rows |-> Hist(k, n, FEATURE_COUNT)] :
            k \in Kinds, n \in 1..MaxHist}
    \cup {[kind |-> "list2", rows |-> Hist("ramp", n, f)] :
            n \in 1..MaxHist, f \in FeatureCounts}

Inputs ==
    [mode : {"none", "stdin", "sequence", "features"},
     payload : {"malformed", "nondict", "ok"},
     args_model : BOOLEAN,
     key_model : BOOLEAN,
     sd : SeqDatas]

StatsOf(kind) ==
    CASE kind = "const" ->
            [min_vals |-> ConstVec(Raw(12), FEATURE_COUNT),
             max_vals |-> ConstVec(Raw(12), FEATURE_COUNT)]
      [] kind = "wide" ->
            [min_vals |-> ConstVec(Raw(0), FEATURE_COUNT),
             max_vals |-> ConstVec(Raw(1000), FEATURE_COUNT)]
      [] kind = "mixed" ->
            [min_vals |-> [i \in 1..FEATURE_COUNT |-> IF i % 2 = 1 THEN Raw(15) ELSE Raw(10)],
             max_vals |-> [i \in 1..FEATURE_COUNT |-> IF i % 2 = 1 THEN Raw(15) ELSE Raw(50)]]

SeqLenOpts == {<<>>} \cup {<<l>> : l \in 1..MaxSeqLen}

ThresholdOpts ==
    {<<>>} \cup {<<[v |-> <<k, 10>>, np |-> b]>> : k \in 0..2, b \in BOOLEAN}
           \cup {<<[v |-> <<9, 40>>, np |-> b]>> : b \in BOOLEAN}

StatsOpts == {<<>>} \cup {<<StatsOf(k)>> : k \in {"const", "wide", "mixed"}}

BaseThreshold == <<[v |-> <<1, 10>>, np |-> TRUE]>>

ModelTypes == {"lstm", "gru"}

HiddenDims == {DEFAULT_HIDDEN_DIM, 2 * DEFAULT_HIDDEN_DIM}

ConfigFields == {"input_dim", "hidden_dim", "latent_dim", "num_layers", "sequence_length"}

\* the constructor arguments of a run of train.py main()
ModelArgs(hidden_dim, sequence_length) ==
    [input_dim |-> FEATURE_COUNT, hidden_dim |-> hidden_dim,
     latent_dim |-> DEFAULT_LATENT_DIM, num_layers |-> DEFAULT_NUM_LAYERS,
     sequence_length |-> sequence_length]

\* train.py lines 573-580
TrainModel(model_type, c) ==
    IF model_type = "lstm" THEN TrainLSTMAutoEncoder(c) ELSE TrainGRUAutoEncoder(c)

\* train.py lines 606-623 (history and trained_at are not modelled)
SaveDict(model_type, c, normalization, threshold) ==
    [model_state_dict |-> TrainModel(model_type, c).state_dict,
     model_type |-> <<model_type>>,
     config |-> <<[f \in ConfigFields |-> <<c[f]>>]>>,
     normalization |-> <<normalization>>,
     threshold |-> <<threshold>>]

\* packages as train.py writes them
TrainedPackages ==
    {SaveDict(m, ModelArgs(h, DEFAULT_SEQUENCE_LENGTH), StatsOf("mixed"), BaseThreshold[1]) :
        m \in ModelTypes, h \in HiddenDims}

DefaultPackage ==
    SaveDict("lstm", ModelArgs(DEFAULT_HIDDEN_DIM, DEFAULT_SEQUENCE_LENGTH),
             StatsOf("mixed"), BaseThreshold[1])

\* packages that lost or changed an entry after they were written
EditedPackages ==
    {[p EXCEPT !.model_type = <<>>] : p \in TrainedPackages}
    \cup {[p EXCEPT !.config = <<>>] : p \in TrainedPackages}
    \cup {[DefaultPackage EXCEPT !.config = <<[DefaultPackage.config[1] EXCEPT ![f] = <<>>]>>] :
            f \in ConfigFields}
    \cup {[DefaultPackage EXCEPT !.config =
            <<[DefaultPackage.config[1] EXCEPT !.hidden_dim = <<2 * DEFAULT_HIDDEN_DIM>>]>>]}

Packages ==
    {[DefaultPackage EXCEPT !.config = <<[DefaultPackage.config[1] EXCEPT !.sequence_length = l]>>,
                            !.normalization = s] :
        l \in SeqLenOpts, s \in StatsOpts}
    \cup {[DefaultPackage EXCEPT !.threshold = t] : t \in ThresholdOpts}
    \cup {[DefaultPackage EXCEPT !.model_type = <<>>, !.config = <<>>, !.threshold = <<>>,
                                  !.normalization = <<>>]}
    \cup TrainedPackages
    \cup EditedPackages

Files ==
    {[state |-> "absent"], [state |-> "corrupt"]}
    \cup {[state |-> "ok", pkg |-> p] : p \in Packages}

Errors == {<<k, 20>> : k \in 0..MaxErrNum}

----------------------------------------------------------------------------
(* predict.py main() *)

\* the except block of lines 436-442
ExceptResult(msg) ==
    [error |-> PyStr(msg), score |-> PyFloat(Zero), is_anomaly |-> PyBool(FALSE),
     confidence |-> PyFloat(Zero)]

\* line 391
InitialResult ==
    [score |-> PyFloat(Zero), is_anomaly |-> PyBool(FALSE), confidence |-> PyFloat(Zero)]

\* line 408
NoInputResult ==
    [error |-> PyStr("No input provided"), score |-> PyFloat(Zero),
     is_anomaly |-> PyBool(FALSE)]

\* what the try body of lines 395-406 ends in for one request
ReadInput(inp) ==
    CASE inp.mode = "none" -> [end |-> "noinput"]
      [] inp.mode = "stdin" ->
            IF inp.payload # "ok" THEN [end |-> "raise"]
            ELSE [end |-> "ok", sequence_data |-> inp.sd,
                  model_path |-> [given |-> inp.key_model \/ inp.args_model]]
      [] inp.mode = "sequence" ->
            IF inp.payload = "malformed" THEN [end |-> "raise"]
            ELSE [end |-> "ok", sequence_data |-> inp.sd,
                  model_path |-> [given |-> inp.args_model]]
      [] inp.mode = "features" ->
            IF inp.payload = "malformed" \/ inp.sd.kind # "list1" \/ inp.sd.rows[1] = <<>>
            THEN [end |-> "raise"]
            ELSE [end |-> "ok", sequence_data |-> [kind |-> "list2", rows |-> inp.sd.rows],
                  model_path |-> [given |-> inp.args_model]]

ParseInput ==
    /\ prog = "predict" /\ pc = "start"
    /\ \E inp \in Inputs :
        LET r == ReadInput(inp)
        IN  CASE r.end = "noinput" ->
                    /\ result' = NoInputResult
                    /\ emitted' = Append(emitted, NoInputResult)
                    /\ pc' = "done"
                    /\ UNCHANGED <<sequence_data, model_path>>
              [] r.end = "raise" ->
                    /\ result' = ExceptResult("input")
                    /\ pc' = "output"
                    /\ UNCHANGED <<sequence_data, model_path, emitted>>
              [] OTHER ->
                    /\ sequence_data' = r.sequence_data
                    /\ model_path' = r.model_path
                    /\ pc' = "convert"
                    /\ UNCHANGED <<result, emitted>>
    /\ UNCHANGED <<prog, fs, sequence, loaded, window>>
    /\ UNCHANGED <<trainVars, exportVars, otherVars>>

\* lines 412-417
Convert ==
    /\ prog = "predict" /\ pc = "convert"
    /\ LET a == NpArray(sequence_data)
       IN  IF a.ok
           THEN /\ sequence' = Ensure2D(a)
                /\ pc' = "dispatch"
                /\ UNCHANGED result
           ELSE /\ result' = ExceptResult("array")
                /\ pc' = "output"
                /\ UNCHANGED sequence
    /\ UNCHANGED <<prog, fs, model_path, sequence_data, loaded, window, emitted>>
    /\ UNCHANGED <<trainVars, exportVars, otherVars>>

\* model_path and os.path.exists(model_path)
ModelExists == model_path.given /\ fs.state # "absent"

\* line 421 (torch.load raises on a file that is no checkpoint, load_state_dict
\* on weights that are not the built model's)
Load ==
    /\ prog = "predict" /\ pc = "dispatch" /\ ModelExists
    /\ IF fs.state = "ok" /\ LoadModel(fs.pkg).ok
       THEN /\ loaded' = LoadModel(fs.pkg)
            /\ pc' = "normalize"
            /\ UNCHANGED result
       ELSE /\ result' = ExceptResult("load")
            /\ pc' = "output"
            /\ UNCHANGED loaded
    /\ UNCHANGED <<prog, fs, model_path, sequence_data, sequence, window, emitted>>
    /\ UNCHANGED <<trainVars, exportVars, otherVars>>

\* lines 424-428
Normalize ==
    /\ prog = "predict" /\ pc = "normalize"
    /\ \E r \in {NormalizeSequence(sequence, loaded.normalization.min_vals,
                                  loaded.normalization.max_vals)} :
           /\ loaded' = [loaded EXCEPT !.normalization =
                            [min_vals |-> r.min_vals, max_vals |-> r.max_vals]]
           /\ IF r.raised
              THEN /\ result' = ExceptResult("broadcast")
                   /\ pc' = "output"
                   /\ UNCHANGED sequence
              ELSE /\ sequence' = r.value
                   /\ pc' = "predict"
                   /\ UNCHANGED result
    /\ UNCHANGED <<prog, fs, model_path, sequence_data, window, emitted>>
    /\ UNCHANGED <<trainVars, exportVars, otherVars>>

\* line 430
Predict ==
    /\ prog = "predict" /\ pc = "predict"
    /\ \E mse \in Errors :
        \E r \in {PredictAnomaly(sequence, loaded.threshold, loaded.config, mse)} :
            /\ window' = r.window
            /\ result' = IF r.raised THEN ExceptResult("division") ELSE r.result
    /\ pc' = "output"
    /\ UNCHANGED <<prog, fs, model_path, sequence_data, sequence, loaded, emitted>>
    /\ UNCHANGED <<trainVars, exportVars, otherVars>>

\* lines 431-434
Fallback ==
    /\ prog = "predict" /\ pc = "dispatch" /\ ~ModelExists
    /\ result' = ("warning" :> PyStr("Model not found, using heuristic"))
                    @@ SimplePredict(sequence)
    /\ pc' = "output"
    /\ UNCHANGED <<prog, fs, model_path, sequence_data, sequence, loaded, window, emitted>>
    /\ UNCHANGED <<trainVars, exportVars, otherVars>>

\* lines 444-451: json.dumps raises outside the try block
Output ==
    /\ prog = "predict" /\ pc = "output"
    /\ IF JsonDumpsOk(result)
       THEN emitted' = Append(emitted, result) /\ pc' = "done"
       ELSE emitted' = emitted /\ pc' = "crashed"
    /\ UNCHANGED <<prog, fs, model_path, sequence_data, sequence, loaded, window, result>>
    /\ UNCHANGED <<trainVars, exportVars, otherVars>>

----------------------------------------------------------------------------
(* train.py: normalize_features, create_sequences and the head of main()   *)

\* range(len(data) - sequence_length): the last window is lost
CreateSequencesShort(data, sequence_length) ==
    [i \in 1..(Len(data) - sequence_length) |-> SubSeq(data, i, i + sequence_length - 1)]

\* lines 85-89: for i in range(len(data) - L + 1): data[i:i + L]
CreateSequences(data, sequence_length) ==
    [i \in 1..(Len(data) - sequence_length + 1) |->
        SubSeq(data, i, i + sequence_length - 1)]

\* data.min(axis=0)[i], data.max(axis=0)[i]
ColMin(data, i) ==
    CHOOSE x \in {data[j][i] : j \in 1..Len(data)} :
        \A j \in 1..Len(data) : ~RLess(data[j][i], x)

ColMax(data, i) ==
    CHOOSE x \in {data[j][i] : j \in 1..Len(data)} :
        \A j \in 1..Len(data) : ~RLess(x, data[j][i])

\* range_vals[range_vals == 0] = 1 left out
RangeValsNoFix(min_vals, max_vals) ==
    [i \in 1..Len(min_vals) |-> RSub(max_vals[i], min_vals[i])]

\* lines 98-99
RangeVals(min_vals, max_vals) ==
    [i \in 1..Len(min_vals) |->
        IF REq(RSub(max_vals[i], min_vals[i]), Zero) THEN One
        ELSE RSub(max_vals[i], min_vals[i])]

\* lines 101: (data - min_vals) / range_vals, not clipped
ScaledRows(data, min_vals, range_vals) ==
    [j \in 1..Len(data) |->
        [i \in 1..Len(min_vals) |-> RDiv(RSub(data[j][i], min_vals[i]), range_vals[i])]]

NormalizeFeatures(data) ==
    LET F == Len(data[1])
        min_vals == [i \in 1..F |-> ColMin(data, i)]
        max_vals == [i \in 1..F |-> ColMax(data, i)]
    IN  [normalized |-> ScaledRows(data, min_vals, RangeVals(min_vals, max_vals)),
         min_vals |-> min_vals,
         max_vals |-> max_vals]

TrainKinds == Kinds \cup {"partial"}

Corpora == {Hist(k, n, FEATURE_COUNT) : k \in TrainKinds, n \in 0..MaxN}

\* lines 534-545: the corpus and args.sequence_length of this run
TrainLoad ==
    /\ prog = "train" /\ pc = "t_start"
    /\ targs' \in 1..MaxSeqLen
    /\ \E m \in ModelTypes, h \in HiddenDims : margs' = [model_type |-> m, hidden_dim |-> h]
    /\ \E found \in BOOLEAN :
        IF found
        THEN raw_data' \in Corpora /\ pc' = "t_check"
        ELSE raw_data' = raw_data /\ pc' = "t_exit1"
    /\ UNCHANGED <<prog, fs, tnorm, sequences, tsplit, tfit>>
    /\ UNCHANGED <<predictVars, exportVars, otherVars>>

\* a corpus of exactly sequence_length vectors let through
TooFewSamplesLoose(n, sequence_length) == n < sequence_length

\* line 547: len(raw_data) < args.sequence_length + 1
TooFewSamples(n, sequence_length) == n < sequence_length + 1

\* lines 547-549
TrainCheck ==
    /\ prog = "train" /\ pc = "t_check"
    /\ pc' = IF TooFewSamples(Len(raw_data), targs) THEN "t_exit1" ELSE "t_normalize"
    /\ UNCHANGED <<prog, fs, targs, raw_data, tnorm, sequences, margs, tsplit, tfit>>
    /\ UNCHANGED <<predictVars, exportVars, otherVars>>

\* line 552
TrainNormalize ==
    /\ prog = "train" /\ pc = "t_normalize"
    /\ \E r \in {NormalizeFeatures(raw_data)} : tnorm' = <<r>>
    /\ pc' = "t_windows"
    /\ UNCHANGED <<prog, fs, targs, raw_data, sequences, margs, tsplit, tfit>>
    /\ UNCHANGED <<predictVars, exportVars, otherVars>>

\* line 555
TrainWindows ==
    /\ prog = "train" /\ pc = "t_windows"
    /\ sequences' = CreateSequences(tnorm[1].normalized, targs)
    /\ pc' = "t_split"
    /\ UNCHANGED <<prog, fs, targs, raw_data, tnorm, margs, tsplit, tfit>>
    /\ UNCHANGED <<predictVars, exportVars, otherVars>>

\* line 559: int(len(sequences) * 0.8)
SplitIdx(n) == (n * 8) \div 10

\* lines 558-561
TrainSplit ==
    /\ prog = "train" /\ pc = "t_split"
    /\ tsplit' = SplitIdx(Len(sequences))
    /\ pc' = "t_fit"
    /\ UNCHANGED <<prog, fs, targs, raw_data, tnorm, sequences, margs, tfit>>
    /\ UNCHANGED <<predictVars, exportVars, otherVars>>

\* lines 560-561
TrainSequences == SubSeq(sequences, 1, tsplit)

ValSequences == SubSeq(sequences, tsplit + 1, Len(sequences))

\* the reconstruction errors a trained model has for windows 1..n (the
\* autoencoder is not computed: any of these profiles may come out of training)
ReconstructionErrors(n) ==
    {[w \in 1..n |-> <<(a * w + b) % (MaxErrNum + 1), 20>>] : a \in 0..2, b \in 0..1}

\* history['best_loss'] of the run (train_model is modelled by SpecFit)
BestLosses == {<<1, 100>>, <<3, 100>>}

\* np.sort
RECURSIVE SortErrors(_)
SortErrors(a) ==
    IF Len(a) = 0 THEN <<>>
    ELSE LET k == CHOOSE k \in 1..Len(a) : \A j \in 1..Len(a) : ~RLess(a[j], a[k])
         IN  <<a[k]>> \o SortErrors([j \in 1..(Len(a) - 1) |-> IF j < k THEN a[j] ELSE a[j + 1]])

\* np.percentile with the sort left out
PercentileUnsorted(a, q) ==
    LET pos == q * (Len(a) - 1)
        lo == pos \div 100
        hi == IF pos % 100 = 0 THEN lo ELSE lo + 1
    IN  RAdd(a[lo + 1],
             RMul(RSub(a[hi + 1], a[lo + 1]), <<pos % 100, 100>>))

\* np.percentile(a, q), linear interpolation between the
\* two nearest ranks of the sorted errors (all_errors is not empty)
Percentile(a, q) ==
    LET sorted == SortErrors(a)
        pos == q * (Len(a) - 1)
        lo == pos \div 100
        hi == IF pos % 100 = 0 THEN lo ELSE lo + 1
    IN  RAdd(sorted[lo + 1], RMul(RSub(sorted[hi + 1], sorted[lo + 1]), <<pos % 100, 100>>))

\* the threshold calibrated on every window, validation windows included
CalculateThresholdAll(errors, n, percentile) ==
    [v |-> Percentile(errors, percentile), np |-> TRUE]

\* lines 410-423 on a loader of windows 1..n: a numpy scalar
CalculateThreshold(errors, n, percentile) ==
    [v |-> Percentile(SubSeq(errors, 1, n), percentile), np |-> TRUE]

\* lines 590-595: train_model (the trained weights are known by the errors
\* they give)
TrainFit ==
    /\ prog = "train" /\ pc = "t_fit"
    /\ \E e \in ReconstructionErrors(Len(sequences)), b \in BestLosses :
            tfit' = <<[errors |-> e, history |-> [best_loss |-> b]]>>
    /\ pc' = "t_calibrate"
    /\ UNCHANGED <<prog, fs, targs, raw_data, tnorm, sequences, margs, tsplit>>
    /\ UNCHANGED <<predictVars, exportVars, otherVars>>

\* lines 598-600: calculate_threshold(model, train_loader, percentile=95)
TrainCalibrate ==
    /\ prog = "train" /\ pc = "t_calibrate"
    /\ \E t \in {CalculateThreshold(tfit[1].errors, Len(TrainSequences), 95)} :
            tfit' = <<[errors |-> tfit[1].errors, history |-> tfit[1].history,
                       threshold |-> t]>>
    /\ pc' = "t_save"
    /\ UNCHANGED <<prog, fs, targs, raw_data, tnorm, sequences, margs, tsplit>>
    /\ UNCHANGED <<predictVars, exportVars, otherVars>>

\* line 625, first half: torch.save opens output_path itself for writing
TrainSaveOpen ==
    /\ prog = "train" /\ pc = "t_save"
    /\ fs' = [state |-> "partial"]
    /\ pc' = "t_writing"
    /\ UNCHANGED <<prog, targs, raw_data, tnorm, sequences, margs, tsplit, tfit>>
    /\ UNCHANGED <<predictVars, exportVars, otherVars>>

\* line 625, second half: the archive is written out and closed
TrainSaveWrite ==
    /\ prog = "train" /\ pc = "t_writing"
    /\ fs' = [state |-> "ok",
              pkg |-> SaveDict(margs.model_type, ModelArgs(margs.hidden_dim, targs),
                               [min_vals |-> tnorm[1].min_vals,
                                max_vals |-> tnorm[1].max_vals],
                               tfit[1].threshold)]
    /\ pc' = "t_summary"
    /\ UNCHANGED <<prog, targs, raw_data, tnorm, sequences, margs, tsplit, tfit>>
    /\ UNCHANGED <<predictVars, exportVars, otherVars>>

\* line 625 interrupted: the write raises (disk full) or the process is killed
TrainSaveFail ==
    /\ prog = "train" /\ pc = "t_writing"
    /\ pc' = "t_crashed"
    /\ UNCHANGED <<prog, fs, targs, raw_data, tnorm, sequences, margs, tsplit, tfit>>
    /\ UNCHANGED <<predictVars, exportVars, otherVars>>

PyInt(n) == [t |-> "int", v |-> n]

\* the summary with the module's default threshold in place of the calibrated one
SummaryUncalibrated ==
    [success |-> PyBool(TRUE),
     model_path |-> PyStr("output_path"),
     model_type |-> PyStr(margs.model_type),
     sequence_length |-> PyInt(targs),
     features |-> PyInt(FEATURE_COUNT),
     threshold |-> PyFloat(DEFAULT_THRESHOLD),
     best_loss |-> PyFloat(tfit[1].history.best_loss),
     epochs |-> PyInt(DEFAULT_EPOCHS)]

\* lines 630-639 (the run has the default --epochs)
Summary ==
    [success |-> PyBool(TRUE),
     model_path |-> PyStr("output_path"),
     model_type |-> PyStr(margs.model_type),
     sequence_length |-> PyInt(targs),
     features |-> PyInt(FEATURE_COUNT),
     threshold |-> PyFloat(tfit[1].threshold.v),
     best_loss |-> PyFloat(tfit[1].history.best_loss),
     epochs |-> PyInt(DEFAULT_EPOCHS)]

\* lines 626-640
TrainSummary ==
    /\ prog = "train" /\ pc = "t_summary"
    /\ emitted' = Append(emitted, Summary)
    /\ pc' = "t_done"
    /\ UNCHANGED <<prog, fs, model_path, sequence_data, sequence, loaded, window, result>>
    /\ UNCHANGED <<trainVars, exportVars, otherVars>>

----------------------------------------------------------------------------
(* export_model.py and quick_export.py *)

\* export_model.py lines 294-305: the model load_model builds
ExportModel(pkg) ==
    LET model_type == Get(pkg.model_type, "lstm")
        config == Get(pkg.config, EmptyConfig)
        c == [input_dim |-> Get(config.input_dim, FEATURE_COUNT),
              hidden_dim |-> Get(config.hidden_dim, 64),
              latent_dim |-> Get(config.latent_dim, 32),
              num_layers |-> Get(config.num_layers, 2),
              sequence_length |-> Get(config.sequence_length, DEFAULT_SEQUENCE_LENGTH)]
    IN  IF model_type = "lstm" THEN ExportLSTMAutoEncoder(c) ELSE ExportGRUAutoEncoder(c)

\* export_model.py load_model: (model, config); ok = FALSE when
\* load_state_dict raised
ExportLoadModel(pkg) ==
    [ok |-> LoadStateDictOk(ExportModel(pkg), pkg.model_state_dict),
     model |-> ExportModel(pkg),
     config |-> Get(pkg.config, EmptyConfig)]

\* the declared shape of a graph tensor: an axis listed in dynamic_axes
\* carries its name, every other axis the size it had in the trace
TensorShape(shape, axes) ==
    [k \in 1..Len(shape) |-> IF (k - 1) \in DOMAIN axes THEN axes[k - 1] ELSE shape[k]]

\* forward(x).shape: (batch, x.size(1), input_dim)
ForwardShape(model, x_shape) == <<x_shape[1], x_shape[2], model.input_dim>>

\* torch.onnx.export(model, dummy, path, input_names, output_names, dynamic_axes)
OnnxExport(model, dummy_shape, input_name, output_name, dynamic_axes) ==
    [format |-> "onnx",
     inputs |-> <<[name |-> input_name,
                   shape |-> TensorShape(dummy_shape, dynamic_axes[input_name])]>>,
     outputs |-> <<[name |-> output_name,
                    shape |-> TensorShape(ForwardShape(model, dummy_shape),
                                          dynamic_axes[output_name])]>>]

\* the dynamic_axes both scripts pass
BatchAxisOnly ==
    [n \in {"input_sequence", "reconstructed_sequence"} |-> (0 :> "batch_size")]

\* export_model.py lines 173-214
ExportToOnnx(model, config) ==
    LET sequence_length == Get(config.sequence_length, DEFAULT_SEQUENCE_LENGTH)
        input_dim == Get(config.input_dim, FEATURE_COUNT)
    IN  OnnxExport(model, <<1, sequence_length, input_dim>>,
                   "input_sequence", "reconstructed_sequence", BatchAxisOnly)

\* export_model.py lines 250-267: a traced module declares forward's argument
\* x and no tensor shape
ExportToTorchscript(model, config) ==
    [format |-> "torchscript",
     inputs |-> <<[name |-> "x", shape |-> <<>>]>>,
     outputs |-> <<[name |-> "", shape |-> <<>>]>>]

\* export_model.py lines 358-365 (source_model, output_path, file_size,
\* input_shape and opset_version are not modelled; normalization <<>> is {})
ExportMetadataOf(pkg, config, format) ==
    [format |-> format,
     config |-> config,
     threshold |-> Get(pkg.threshold, [v |-> DEFAULT_THRESHOLD, np |-> FALSE]),
     normalization |-> pkg.normalization,
     success |-> TRUE]

\* json.dump encodes a Python float; of the numpy scalars it encodes float64
\* and raises on float32, and which one the package holds is not modelled
JsonDumpOutcomes(threshold) == IF threshold.np THEN {TRUE, FALSE} ELSE {TRUE}

\* export_model.py line 345 (lines 287-310): a missing or unreadable file
\* and a failed load_state_dict end the run with a traceback
ExportLoad ==
    /\ prog = "export" /\ pc = "x_start"
    /\ IF fs.state = "ok" /\ ExportLoadModel(fs.pkg).ok
       THEN loaded' = ExportLoadModel(fs.pkg) /\ pc' = "x_graph"
       ELSE loaded' = loaded /\ pc' = "x_crashed"
    /\ UNCHANGED <<prog, fs, model_path, sequence_data, sequence, window, result, emitted>>
    /\ UNCHANGED <<trainVars, exportVars, otherVars>>

\* export_model.py lines 351-354
ExportGraph ==
    /\ prog = "export" /\ pc = "x_graph"
    /\ graph' = IF xargs.format = "onnx" THEN ExportToOnnx(loaded.model, loaded.config)
                ELSE ExportToTorchscript(loaded.model, loaded.config)
    /\ pc' = "x_meta"
    /\ UNCHANGED <<prog, fs, xargs, sidecar>>
    /\ UNCHANGED <<predictVars, trainVars, otherVars>>

\* export_model.py lines 357-380
ExportMetadata ==
    /\ prog = "export" /\ pc = "x_meta"
    /\ LET metadata == ExportMetadataOf(fs.pkg, loaded.config, xargs.format)
       IN  \E dumped \in JsonDumpOutcomes(metadata.threshold) :
             IF dumped
             THEN /\ sidecar' = [state |-> "ok", meta |-> metadata]
                  /\ emitted' = Append(emitted, [success |-> PyBool(TRUE)])
                  /\ pc' = "x_done"
             ELSE /\ sidecar' = [state |-> "partial"]
                  /\ emitted' = emitted
                  /\ pc' = "x_crashed"
    /\ UNCHANGED <<prog, fs, model_path, sequence_data, sequence, loaded, window, result>>
    /\ UNCHANGED <<trainVars, xargs, graph, otherVars>>

\* quick_export.py lines 97-113: checkpoint['config'] and config[...] raise
\* KeyError on a missing key; the model is always an LSTMAutoEncoder
QuickLoadModel(pkg) ==
    IF pkg.config = <<>> \/ \E f \in ConfigFields : pkg.config[1][f] = <<>>
    THEN NotLoaded
    ELSE LET config == pkg.config[1]
             model == QuickLSTMAutoEncoder([f \in ConfigFields |-> config[f][1]])
         IN  IF LoadStateDictOk(model, pkg.model_state_dict)
             THEN [ok |-> TRUE, model |-> model, config |-> config]
             ELSE NotLoaded

\* quick_export.py lines 118-139
QuickToOnnx(model, config) ==
    OnnxExport(model, <<1, config.sequence_length[1], config.input_dim[1]>>,
               "input_sequence", "reconstructed_sequence", BatchAxisOnly)

\* quick_export.py lines 144-162
QuickMetadataOf(pkg, config) ==
    [model_type |-> Get(pkg.model_type, "lstm"),
     config |-> config,
     threshold |-> [v |-> Get(pkg.threshold, [v |-> <<27, 1000>>, np |-> FALSE]).v,
                    np |-> FALSE],
     normalization |->
        <<Get(pkg.normalization,
              [min_vals |-> ConstVec(Zero, 15), max_vals |-> ConstVec(One, 15)])>>]

\* quick_export.py lines 97-113
QuickLoad ==
    /\ prog = "quick" /\ pc = "x_start"
    /\ IF fs.state = "ok" /\ QuickLoadModel(fs.pkg).ok
       THEN loaded' = QuickLoadModel(fs.pkg) /\ pc' = "x_graph"
       ELSE loaded' = loaded /\ pc' = "x_crashed"
    /\ UNCHANGED <<prog, fs, model_path, sequence_data, sequence, window, result, emitted>>
    /\ UNCHANGED <<trainVars, exportVars, otherVars>>

\* quick_export.py lines 118-141
QuickGraph ==
    /\ prog = "quick" /\ pc = "x_graph"
    /\ graph' = QuickToOnnx(loaded.model, loaded.config)
    /\ pc' = "x_meta"
    /\ UNCHANGED <<prog, fs, xargs, sidecar>>
    /\ UNCHANGED <<predictVars, trainVars, otherVars>>

\* quick_export.py lines 144-168
QuickMetadata ==
    /\ prog = "quick" /\ pc = "x_meta"
    /\ sidecar' = [state |-> "ok", meta |-> QuickMetadataOf(fs.pkg, loaded.config)]
    /\ pc' = "x_done"
    /\ UNCHANGED <<prog, fs, xargs, graph>>
    /\ UNCHANGED <<predictVars, trainVars, otherVars>>

----------------------------------------------------------------------------

\* the variables of the other entry points, before any of them has run
CallIdle == files = <<>> /\ calls = <<>> /\ frames = <<>>

CalibrateIdle == all_errors = <<>> /\ thresholds = <<>>

LoadIdle == jsonl = <<>> /\ lineno = 0 /\ ldata = <<>> /\ lpc = "idle"

FitIdle ==
    /\ fargs = <<>> /\ epoch = 0 /\ history = <<>> /\ lr = <<>>
    /\ scheduler = <<>> /\ fpc = "idle"

NormIdle == ncorpus = <<>> /\ nfit = <<>> /\ ninfer = <<>> /\ npc = "idle"

OtherIdle == CallIdle /\ CalibrateIdle /\ LoadIdle /\ FitIdle /\ NormIdle

InitPredict ==
    /\ prog = "predict" /\ pc = "start"
    /\ fs \in Files
    /\ model_path = [given |-> FALSE]
    /\ sequence_data = [kind |-> "none", rows |-> <<>>]
    /\ sequence = [shape |-> <<>>, rows |-> <<>>]
    /\ loaded = NotLoaded
    /\ window = <<>>
    /\ result = InitialResult
    /\ emitted = <<>>
    /\ targs = 0 /\ raw_data = <<>> /\ tnorm = <<>> /\ sequences = <<>>
    /\ margs = <<>> /\ tsplit = 0 /\ tfit = <<>>
    /\ xargs = <<>> /\ graph = <<>> /\ sidecar = <<>>
    /\ OtherIdle

InitTrain ==
    /\ prog = "train" /\ pc = "t_start"
    /\ fs \in {[state |-> "absent"], [state |-> "ok", pkg |-> DefaultPackage]}
    /\ model_path = [given |-> FALSE]
    /\ sequence_data = [kind |-> "none", rows |-> <<>>]
    /\ sequence = [shape |-> <<>>, rows |-> <<>>]
    /\ loaded = NotLoaded
    /\ window = <<>>
    /\ result = InitialResult
    /\ emitted = <<>>
    /\ targs = 0 /\ raw_data = <<>> /\ tnorm = <<>> /\ sequences = <<>>
    /\ margs = <<>> /\ tsplit = 0 /\ tfit = <<>>
    /\ xargs = <<>> /\ graph = <<>> /\ sidecar = <<>>
    /\ OtherIdle

ExportFormats == {"onnx", "torchscript"}

InitExport ==
    /\ prog \in {"export", "quick"} /\ pc = "x_start"
    /\ fs \in Files
    /\ model_path = [given |-> TRUE]
    /\ sequence_data = [kind |-> "none", rows |-> <<>>]
    /\ sequence = [shape |-> <<>>, rows |-> <<>>]
    /\ loaded = NotLoaded
    /\ window = <<>>
    /\ result = InitialResult
    /\ emitted = <<>>
    /\ targs = 0 /\ raw_data = <<>> /\ tnorm = <<>> /\ sequences = <<>>
    /\ margs = <<>> /\ tsplit = 0 /\ tfit = <<>>
    /\ xargs \in [format : IF prog = "export" THEN ExportFormats ELSE {"onnx"}]
    /\ graph = <<>> /\ sidecar = <<>>
    /\ OtherIdle

Init == InitPredict \/ InitTrain \/ InitExport

Next ==
    \/ ParseInput \/ Convert \/ Load \/ Normalize \/ Predict \/ Fallback \/ Output
    \/ TrainLoad \/ TrainCheck \/ TrainNormalize \/ TrainWindows
    \/ TrainSplit \/ TrainFit \/ TrainCalibrate \/ TrainSaveOpen \/ TrainSaveWrite \/ TrainSaveFail
    \/ TrainSummary
    \/ ExportLoad \/ ExportGraph \/ ExportMetadata
    \/ QuickLoad \/ QuickGraph \/ QuickMetadata

Spec == Init /\ [][Next]_vars

----------------------------------------------------------------------------
(* Concurrent scoring: several calls of the body of predict.py main(), lines *)
(* 419-451, each with its own model path and window, interleaved statement   *)
(* by statement.  The calls share the files; model, config, threshold,       *)
(* normalization, sequence and result are local variables of each call.      *)

mainVars == <<prog, pc, fs, predictVars, trainVars, exportVars>>

\* the variables of the single-run entry points, none of which is running
MainIdle ==
    /\ pc = "idle"
    /\ fs = [state |-> "absent"]
    /\ model_path = [given |-> FALSE]
    /\ sequence_data = [kind |-> "none", rows |-> <<>>]
    /\ sequence = [shape |-> <<>>, rows |-> <<>>]
    /\ loaded = NotLoaded
    /\ window = <<>>
    /\ result = InitialResult
    /\ emitted = <<>>
    /\ targs = 0 /\ raw_data = <<>> /\ tnorm = <<>> /\ sequences = <<>>
    /\ margs = <<>> /\ tsplit = 0 /\ tfit = <<>>
    /\ xargs = <<>> /\ graph = <<>> /\ sidecar = <<>>

Calls == {1, 2}

Paths == {"a.pth", "b.pth"}

\* one module-level frame for every call
FrameShared(c) == 1

\* where the local variables of call c live: in the frame of that call
Frame(c) == c

PackageA ==
    [DefaultPackage EXCEPT !.normalization = <<StatsOf("wide")>>,
                           !.threshold = <<[v |-> <<2, 10>>, np |-> FALSE]>>]

PackageB ==
    [DefaultPackage EXCEPT
        !.config = <<[DefaultPackage.config[1] EXCEPT !.sequence_length = <<2>>]>>]

\* the packages on disk while the calls run
FileSystems ==
    {[p \in Paths |-> IF p = "a.pth" THEN a ELSE [state |-> "ok", pkg |-> PackageB]] :
        a \in {[state |-> "absent"], [state |-> "ok", pkg |-> PackageA]}}

\* the requests: a model path, a window, and the reconstruction error the
\* package's autoencoder has for that window
CallRequests ==
    [model_path : Paths,
     rows : {Hist("ramp", 3, FEATURE_COUNT), Hist("mild", 1, FEATURE_COUNT)},
     mse : {<<1, 20>>, <<3, 20>>}]

\* the locals of main() before line 413
NewFrame ==
    [sequence |-> [shape |-> <<>>, rows |-> <<>>], loaded |-> NotLoaded,
     result |-> InitialResult, emitted |-> <<>>]

\* lines 413-417
CallConvert(c) ==
    /\ calls[c].pc = "convert"
    /\ frames' = [frames EXCEPT ![Frame(c)].sequence =
                    Ensure2D(NpArray([kind |-> "list2", rows |-> calls[c].request.rows]))]
    /\ calls' = [calls EXCEPT ![c].pc = "dispatch"]
    /\ UNCHANGED <<files, mainVars, calibrateVars, loadVars, fitVars, normVars>>

\* line 421
CallLoad(c) ==
    LET file == files[calls[c].request.model_path]
    IN  /\ calls[c].pc = "dispatch" /\ file.state # "absent"
        /\ IF file.state = "ok" /\ LoadModel(file.pkg).ok
           THEN /\ frames' = [frames EXCEPT ![Frame(c)].loaded = LoadModel(file.pkg)]
                /\ calls' = [calls EXCEPT ![c].pc = "normalize"]
           ELSE /\ frames' = [frames EXCEPT ![Frame(c)].result = ExceptResult("load")]
                /\ calls' = [calls EXCEPT ![c].pc = "output"]
        /\ UNCHANGED <<files, mainVars, calibrateVars, loadVars, fitVars, normVars>>

\* lines 424-428
CallNormalize(c) ==
    LET my == frames[Frame(c)]
        r == NormalizeSequence(my.sequence, my.loaded.normalization.min_vals,
                               my.loaded.normalization.max_vals)
    IN  /\ calls[c].pc = "normalize"
        /\ IF r.raised
           THEN /\ frames' = [frames EXCEPT ![Frame(c)].result = ExceptResult("broadcast")]
                /\ calls' = [calls EXCEPT ![c].pc = "output"]
           ELSE /\ frames' = [frames EXCEPT
                                ![Frame(c)].sequence = r.value,
                                ![Frame(c)].loaded.normalization =
                                    [min_vals |-> r.min_vals, max_vals |-> r.max_vals]]
                /\ calls' = [calls EXCEPT ![c].pc = "predict"]
        /\ UNCHANGED <<files, mainVars, calibrateVars, loadVars, fitVars, normVars>>

\* line 430
CallPredict(c) ==
    LET my == frames[Frame(c)]
        r == PredictAnomaly(my.sequence, my.loaded.threshold, my.loaded.config,
                            calls[c].request.mse)
    IN  /\ calls[c].pc = "predict"
        /\ frames' = [frames EXCEPT ![Frame(c)].result =
                        IF r.raised THEN ExceptResult("division") ELSE r.result]
        /\ calls' = [calls EXCEPT ![c].pc = "output"]
        /\ UNCHANGED <<files, mainVars, calibrateVars, loadVars, fitVars, normVars>>

\* lines 431-434
CallFallback(c) ==
    /\ calls[c].pc = "dispatch"
    /\ files[calls[c].request.model_path].state = "absent"
    /\ frames' = [frames EXCEPT ![Frame(c)].result =
                    ("warning" :> PyStr("Model not found, using heuristic"))
                        @@ SimplePredict(frames[Frame(c)].sequence)]
    /\ calls' = [calls EXCEPT ![c].pc = "output"]
    /\ UNCHANGED <<files, mainVars, calibrateVars, loadVars, fitVars, normVars>>

\* lines 444-451
CallOutput(c) ==
    /\ calls[c].pc = "output"
    /\ IF JsonDumpsOk(frames[Frame(c)].result)
       THEN /\ frames' = [frames EXCEPT ![Frame(c)].emitted =
                            Append(@, frames[Frame(c)].result)]
            /\ calls' = [calls EXCEPT ![c].pc = "done"]
       ELSE /\ frames' = frames
            /\ calls' = [calls EXCEPT ![c].pc = "crashed"]
    /\ UNCHANGED <<files, mainVars, calibrateVars, loadVars, fitVars, normVars>>

InitCalls ==
    /\ prog = "calls" /\ MainIdle /\ CalibrateIdle /\ LoadIdle /\ FitIdle /\ NormIdle
    /\ files \in FileSystems
    /\ calls \in [Calls -> [pc : {"convert"}, request : CallRequests]]
    /\ frames = [c \in Calls |-> NewFrame]

NextCalls ==
    \E c \in Calls :
        \/ CallConvert(c) \/ CallLoad(c) \/ CallNormalize(c) \/ CallPredict(c)
        \/ CallFallback(c) \/ CallOutput(c)

SpecCalls == InitCalls /\ [][NextCalls]_vars

----------------------------------------------------------------------------
(* calculate_threshold on a list of reconstruction errors, called with       *)
(* several percentiles                                                       *)

MaxErrs == 3        \* most calibration windows

Percentiles == {0, 50, 95, 99, 100}

RECURSIVE ErrorLists(_)
ErrorLists(n) ==
    IF n = 0 THEN {<<>>}
    ELSE {Append(a, e) : a \in ErrorLists(n - 1), e \in Errors}

\* lines 422-423 for one percentile
Calibrate(percentile) ==
    /\ prog = "calibrate"
    /\ percentile \notin DOMAIN thresholds
    /\ thresholds' = (percentile :> Percentile(all_errors, percentile)) @@ thresholds
    /\ UNCHANGED <<all_errors, mainVars, callVars, loadVars, fitVars, normVars>>

InitCalibrate ==
    /\ prog = "calibrate" /\ MainIdle /\ CallIdle /\ LoadIdle /\ FitIdle /\ NormIdle
    /\ all_errors \in UNION {ErrorLists(n) \ {<<>>} : n \in 1..MaxErrs}
    /\ thresholds = <<>>

NextCalibrate == \E percentile \in Percentiles : Calibrate(percentile)

SpecCalibrate == InitCalibrate /\ [][NextCalibrate]_vars

----------------------------------------------------------------------------
(* ai-trainer/train.py load_data: the labelled records of the classifier.   *)
(* A JSON value is [t, v]: v is the tuple of the characters of a text, of    *)
(* the elements of a list, or the numeral of a number.                       *)

MaxLines == 2       \* longest dataset file

JNull == [t |-> "null", v |-> <<>>]
JStr(chars) == [t |-> "str", v |-> chars]
JNum(numeral) == [t |-> "num", v |-> <<numeral>>]
JList(elems) == [t |-> "list", v |-> elems]

\* dict.get(key) on a decoded object: None when the key is absent
JGet(record, key) == IF key \in DOMAIN record THEN record[key] ELSE JNull

\* bool(x)
Truthy(x) ==
    CASE x.t = "null" -> FALSE
      [] x.t = "num"  -> x.v[1] # "0"
      [] x.t \in {"str", "list"} -> Len(x.v) > 0

\* len(x) raises TypeError on None and on a number
HasLen(x) == x.t \in {"str", "list"}

UpperCase == <<"A", "B", "C", "E", "G", "I", "L", "M", "N", "O", "S", "T", "U">>

LowerCase == <<"a", "b", "c", "e", "g", "i", "l", "m", "n", "o", "s", "t", "u">>

\* str.lower()
Lower(chars) ==
    [k \in 1..Len(chars) |->
        IF \E u \in 1..Len(UpperCase) : UpperCase[u] = chars[k]
        THEN LowerCase[CHOOSE u \in 1..Len(UpperCase) : UpperCase[u] = chars[k]]
        ELSE chars[k]]

\* needle in chars
Contains(chars, needle) ==
    \E k \in 0..(Len(chars) - Len(needle)) : SubSeq(chars, k + 1, k + Len(needle)) = needle

Malicious == <<"m", "a", "l", "i", "c", "i", "o", "u", "s">>

\* lines 35-41
LabelOf(threat, user_label) ==
    LET effective_label == IF Truthy(user_label) THEN user_label ELSE threat
    IN  IF effective_label.t = "str" /\ Contains(Lower(effective_label.v), Malicious)
        THEN 1 ELSE 0

\* lines 21-46 for one line of the file: "skip" (continue), "row" (features
\* + [label] appended) or "raise" (an exception neither except clause catches)
LoadLine(line) ==
    IF line.json = "invalid" THEN [end |-> "skip"]
    ELSE IF line.json # "object" THEN [end |-> "raise"]
    ELSE LET features == JGet(line.record, "features")
             threat == JGet(line.record, "threat")
             user_label == JGet(line.record, "user_label")
         IN  IF ~Truthy(features) THEN [end |-> "skip"]
             ELSE IF ~HasLen(features) THEN [end |-> "raise"]
             ELSE IF Len(features.v) # 15 THEN [end |-> "skip"]
             ELSE IF features.t # "list" THEN [end |-> "raise"]
             ELSE [end |-> "row",
                   row |-> [features |-> features.v,
                            target |-> LabelOf(threat, user_label)]]

FeatureList(n) == JList([i \in 1..n |-> "1"])

Letters(n) == JStr([i \in 1..n |-> "x"])

Threats ==
    {JStr(<<"M", "a", "l", "i", "c", "i", "o", "u", "s">>),
     JStr(<<"b", "e", "n", "i", "g", "n">>),
     JStr(<<"n", "o", "t", " ", "m", "a", "l", "i", "c", "i", "o", "u", "s">>),
     JNull}

UserLabels ==
    {JStr(<<"M", "A", "L", "I", "C", "I", "O", "U", "S">>),
     JStr(<<"B", "e", "n", "i", "g", "n">>),
     JStr(<<>>), JNull, JNum("1")}

\* with(keys, r): the record r restricted to the keys it is written with
Restrict(r, keys) == [k \in keys |-> r[k]]

LabelledRecords ==
    UNION {{Restrict([features |-> FeatureList(15), threat |-> t, user_label |-> u], keys) :
                t \in Threats, u \in UserLabels} :
           keys \in {{"features"}, {"features", "threat"}, {"features", "user_label"},
                     {"features", "threat", "user_label"}}}

UnusableRecords ==
    {[threat |-> JStr(Malicious)]}
    \cup {[features |-> f, threat |-> JStr(Malicious)] :
            f \in {JNull, FeatureList(0), FeatureList(14), FeatureList(16),
                   JNum("0"), JNum("5"), Letters(3), Letters(15)}}

FileLines ==
    {[json |-> "invalid"], [json |-> "array"]}
    \cup {[json |-> "object", record |-> r] : r \in LabelledRecords \cup UnusableRecords}

RECURSIVE LineLists(_)
LineLists(n) ==
    IF n = 0 THEN {<<>>}
    ELSE {Append(a, l) : a \in LineLists(n - 1), l \in FileLines}

\* line 18: open(file_path); FileNotFoundError ends the program (lines 54-56)
LoadOpen ==
    /\ prog = "load" /\ lpc = "open"
    /\ lpc' = IF jsonl.exists THEN "lines" ELSE "exit1"
    /\ UNCHANGED <<jsonl, lineno, ldata, mainVars, callVars, calibrateVars, fitVars, normVars>>

\* lines 19-46: one pass of the loop
LoadNextLine ==
    /\ prog = "load" /\ lpc = "lines" /\ lineno < Len(jsonl.lines)
    /\ \E r \in {LoadLine(jsonl.lines[lineno + 1])} :
        /\ lineno' = lineno + 1
        /\ ldata' = IF r.end = "row" THEN Append(ldata, r.row) ELSE ldata
        /\ lpc' = IF r.end = "raise" THEN "raised" ELSE "lines"
    /\ UNCHANGED <<jsonl, mainVars, callVars, calibrateVars, fitVars, normVars>>

\* lines 48-52
LoadReturn ==
    /\ prog = "load" /\ lpc = "lines" /\ lineno = Len(jsonl.lines)
    /\ lpc' = "returned"
    /\ UNCHANGED <<jsonl, lineno, ldata, mainVars, callVars, calibrateVars, fitVars, normVars>>

InitLoad ==
    /\ prog = "load" /\ MainIdle /\ CallIdle /\ CalibrateIdle /\ FitIdle /\ NormIdle
    /\ jsonl \in {[exists |-> FALSE, lines |-> <<>>]}
                 \cup {[exists |-> TRUE, lines |-> l] :
                        l \in UNION {LineLists(n) : n \in 0..MaxLines}}
    /\ lineno = 0 /\ ldata = <<>> /\ lpc = "open"

NextLoad == LoadOpen \/ LoadNextLine \/ LoadReturn

SpecLoad == InitLoad /\ [][NextLoad]_vars

----------------------------------------------------------------------------
(* train.py train_model: the epoch loop.  What one epoch's batches average  *)
(* to is the data's doing: each epoch draws its (training, validation)       *)
(* average losses from the pairs the run's data can produce.  Learning       *)
(* rates are held in units of 1e-8, the scheduler's eps.                     *)

MaxEpochs == 12     \* most epochs of one call

Inf == <<1, 0>>
\* a loss that 1 is below, but not below 0.9999 times it
Near == <<10000, 9999>>
DEFAULT_LEARNING_RATE == <<100000, 1>>
FACTOR == <<1, 2>>
EPS == <<1, 1>>
MIN_LR == <<0, 1>>
\* ReduceLROnPlateau's threshold, 1e-4 in mode 'rel': 1 - threshold
REL_THRESHOLD == <<9999, 10000>>

LossPairs ==
    { {<<One, <<2, 1>>>>, <<<<2, 1>>, One>>},
      {<<One, Near>>, <<Near, One>>} }

LearningRates == {DEFAULT_LEARNING_RATE, <<2, 1>>}

\* lines 334-339
NewHistory ==
    [train_loss |-> <<>>, val_loss |-> <<>>, best_loss |-> Inf, best_epoch |-> 0]

\* line 332: mode='min', patience=10, factor=0.5 (threshold, cooldown, min_lr
\* and eps at their defaults)
NewScheduler == [best |-> Inf, num_bad_epochs |-> 0]

\* is_better of mode 'min', threshold_mode 'rel'
IsBetter(a, best) == RLess(a, RMul(best, REL_THRESHOLD))

\* _reduce_lr: the new rate is taken only when it is lower by more than eps
ReduceLr(old_lr) ==
    LET scaled == RMul(old_lr, FACTOR)
        new_lr == IF RLess(scaled, MIN_LR) THEN MIN_LR ELSE scaled
    IN  IF RLess(EPS, RSub(old_lr, new_lr)) THEN new_lr ELSE old_lr

SchedulerStepEarly(sched, old_lr, metrics) ==
    LET better == IsBetter(metrics, sched.best)
        bad == IF better THEN 0 ELSE sched.num_bad_epochs + 1
    IN  IF bad >= PATIENCE
        THEN [scheduler |-> [best |-> IF better THEN metrics ELSE sched.best,
                             num_bad_epochs |-> 0],
              lr |-> ReduceLr(old_lr)]
        ELSE [scheduler |-> [best |-> IF better THEN metrics ELSE sched.best,
                             num_bad_epochs |-> bad],
              lr |-> old_lr]

\* line 384: scheduler.step(avg_val_loss)
SchedulerStep(sched, old_lr, metrics) ==
    LET better == IsBetter(metrics, sched.best)
        bad == IF better THEN 0 ELSE sched.num_bad_epochs + 1
    IN  IF bad > PATIENCE
        THEN [scheduler |-> [best |-> IF better THEN metrics ELSE sched.best,
                             num_bad_epochs |-> 0],
              lr |-> ReduceLr(old_lr)]
        ELSE [scheduler |-> [best |-> IF better THEN metrics ELSE sched.best,
                             num_bad_epochs |-> bad],
              lr |-> old_lr]

BestOfLatest(h, loss, e) ==
    IF ~RLess(h.best_loss, loss)
    THEN [h EXCEPT !.best_loss = loss, !.best_epoch = e]
    ELSE h

\* lines 386-388 and 395-397
BestOf(h, loss, e) ==
    IF RLess(loss, h.best_loss)
    THEN [h EXCEPT !.best_loss = loss, !.best_epoch = e]
    ELSE h

\* lines 329-345
FitStart ==
    /\ prog = "fit" /\ fpc = "start"
    /\ history' = NewHistory
    /\ lr' = fargs.learning_rate
    /\ scheduler' = NewScheduler
    /\ epoch' = 0
    /\ fpc' = "loop"
    /\ UNCHANGED <<fargs, mainVars, callVars, calibrateVars, loadVars, normVars>>

\* lines 347-401: one pass of the loop
FitEpoch ==
    /\ prog = "fit" /\ fpc = "loop" /\ epoch < fargs.epochs
    /\ \E l \in fargs.losses :
        LET avg_train_loss == l[1]
            avg_val_loss == l[2]
            h1 == [history EXCEPT !.train_loss = Append(@, avg_train_loss)]
        IN  IF fargs.val_loader
            THEN /\ history' = BestOf([h1 EXCEPT !.val_loss = Append(@, avg_val_loss)],
                                      avg_val_loss, epoch)
                 /\ \E s \in {SchedulerStep(scheduler, lr, avg_val_loss)} :
                        scheduler' = s.scheduler /\ lr' = s.lr
            ELSE /\ history' = BestOf(h1, avg_train_loss, epoch)
                 /\ UNCHANGED <<scheduler, lr>>
    /\ epoch' = epoch + 1
    /\ UNCHANGED <<fargs, fpc, mainVars, callVars, calibrateVars, loadVars, normVars>>

\* lines 402-407
FitReturn ==
    /\ prog = "fit" /\ fpc = "loop" /\ epoch = fargs.epochs
    /\ fpc' = "returned"
    /\ UNCHANGED <<fargs, epoch, history, lr, scheduler,
                   mainVars, callVars, calibrateVars, loadVars, normVars>>

InitFit ==
    /\ prog = "fit" /\ MainIdle /\ CallIdle /\ CalibrateIdle /\ LoadIdle /\ NormIdle
    /\ fargs \in [epochs : {1, MaxEpochs}, learning_rate : LearningRates,
                  val_loader : BOOLEAN, losses : LossPairs]
    /\ epoch = 0 /\ history = <<>> /\ lr = <<>> /\ scheduler = <<>>
    /\ fpc = "start"

NextFit == FitStart \/ FitEpoch \/ FitReturn

SpecFit == InitFit /\ [][NextFit]_vars

----------------------------------------------------------------------------
(* Normalization in the arithmetic the two scripts use.  train.py holds the *)
(* corpus, its min/max and every intermediate result in float32;            *)
(* predict.py holds the request in float32, the stats in float64, computes  *)
(* in float64 and rounds once, when the tensor is built.  A float32 is      *)
(* <<m, e>> = m * 2^e with 2^23 <= m < 2^24, or <<0, 0>>.  The corpus holds  *)
(* non-negative integers below 2^25; on these every float64 result rounds   *)
(* to the same float32 as the exact quotient, so float64 is carried exactly *)
(* as <<n, d>>.                                                             *)

MaxRows == 3        \* most vectors of a corpus

TwoTo23 == 8388608
TwoTo24 == 16777216

RECURSIVE Pow2(_)
Pow2(k) == IF k = 0 THEN 1 ELSE 2 * Pow2(k - 1)

\* q + r/d, 0 <= r < d, times 2^e, brought to a 24-bit significand and
\* rounded to nearest, ties to even
RECURSIVE Widen(_, _, _, _)
Widen(q, r, d, e) ==
    IF q >= TwoTo23
    THEN LET m == IF 2 * r > d \/ (2 * r = d /\ q % 2 = 1) THEN q + 1 ELSE q
         IN  IF m = TwoTo24 THEN <<TwoTo23, e + 1>> ELSE <<m, e>>
    ELSE IF 2 * r >= d
         THEN Widen(2 * q + 1, 2 * r - d, d, e - 1)
         ELSE Widen(2 * q, 2 * r, d, e - 1)

\* the float32 nearest to (n / d) * 2^e, for n >= 0 and d > 0
RECURSIVE Round32(_, _, _)
Round32(n, d, e) ==
    IF n = 0 THEN <<0, 0>>
    ELSE IF n \div d >= TwoTo24 THEN Round32(n, 2 * d, e + 1)
    ELSE Widen(n \div d, n % d, d, e)

\* the integer a float32 of the corpus holds
IntOf(x) == IF x[2] >= 0 THEN x[1] * Pow2(x[2]) ELSE x[1] \div Pow2(0 - x[2])

One32 == <<TwoTo23, 0 - 23>>

\* float32 - float32 and float32 / float32, each rounded to float32
Sub32(a, b) == Round32(IntOf(a) - IntOf(b), 1, 0)

Div32(a, b) ==
    IF a[1] = 0 THEN <<0, 0>>
    ELSE LET q == Round32(a[1], b[1], 0) IN <<q[1], q[2] + a[2] - b[2]>>

\* np.array(vectors, dtype=np.float32)
Float32Array(rows) ==
    [j \in 1..Len(rows) |-> [i \in 1..Len(rows[j]) |-> Round32(rows[j][i], 1, 0)]]

ColMin32(data, i) ==
    CHOOSE x \in {data[j][i] : j \in 1..Len(data)} :
        \A j \in 1..Len(data) : IntOf(x) <= IntOf(data[j][i])

ColMax32(data, i) ==
    CHOOSE x \in {data[j][i] : j \in 1..Len(data)} :
        \A j \in 1..Len(data) : IntOf(x) >= IntOf(data[j][i])

\* train.py lines 97-98: range_vals = max_vals - min_vals, zeros set to 1
RangeVals32(min_vals, max_vals) ==
    [i \in 1..Len(min_vals) |->
        LET range == Sub32(max_vals[i], min_vals[i])
        IN  IF range[1] = 0 THEN One32 ELSE range]

\* train.py line 101: (data - min_vals) / range_vals
ScaledRows32(data, min_vals, range_vals) ==
    [j \in 1..Len(data) |->
        [i \in 1..Len(min_vals) |->
            Div32(Sub32(data[j][i], min_vals[i]), range_vals[i])]]

\* train.py lines 94-95
MinVals32(data) == [i \in 1..Len(data[1]) |-> ColMin32(data, i)]

MaxVals32(data) == [i \in 1..Len(data[1]) |-> ColMax32(data, i)]

\* predict.py lines 239-240: range_arr = max_arr - min_arr, zeros set to 1
RangeArr64(min_arr, max_arr) ==
    [i \in 1..Len(min_arr) |->
        IF max_arr[i] - min_arr[i] = 0 THEN 1 ELSE max_arr[i] - min_arr[i]]

\* np.clip(n / d, 0, 1) for d > 0
Clip64(n, d) == IF n < 0 THEN <<0, 1>> ELSE IF n > d THEN <<1, 1>> ELSE <<n, d>>

\* predict.py lines 242-243
ClippedRows64(seq, min_arr, range_arr) ==
    [j \in 1..Len(seq) |->
        [i \in 1..Len(seq[j]) |-> Clip64(IntOf(seq[j][i]) - min_arr[i], range_arr[i])]]

\* predict.py lines 236-237: np.array(min_vals) on the list the package holds
\* (min_vals.tolist(): the same numbers as Python floats), a float64 array
Float64Array(vals) == [i \in 1..Len(vals) |-> IntOf(vals[i])]

\* predict.py line 279: torch.FloatTensor(sequence)
FloatTensor(seq) ==
    [j \in 1..Len(seq) |-> [i \in 1..Len(seq[j]) |-> Round32(seq[j][i][1], seq[j][i][2], 0)]]

\* the values of a telemetry counter: small ones, and ones past 2^23
CounterValues == {0, 1, TwoTo23 + 1, TwoTo24 + 2}

RECURSIVE Columns(_)
Columns(n) ==
    IF n = 0 THEN {<<>>}
    ELSE {Append(c, v) : c \in Columns(n - 1), v \in CounterValues}

\* a corpus of n vectors: the odd features follow the column, the even ones
\* are constant
CorpusOf(column) ==
    [j \in 1..Len(column) |->
        [i \in 1..FEATURE_COUNT |-> IF i % 2 = 1 THEN column[j] ELSE 7]]

\* train.py line 552: normalize_features(raw_data), statement by statement
NormFit ==
    /\ prog = "normalize" /\ npc = "fit"
    /\ \E data \in {Float32Array(ncorpus)} :
       \E min_vals \in {MinVals32(data)}, max_vals \in {MaxVals32(data)} :
       \E range_vals \in {RangeVals32(min_vals, max_vals)} :
            nfit' = [normalized |-> ScaledRows32(data, min_vals, range_vals),
                     min_vals |-> min_vals,
                     max_vals |-> max_vals]
    /\ npc' = "infer"
    /\ UNCHANGED <<ncorpus, ninfer, mainVars, callVars, calibrateVars, loadVars, fitVars>>

\* predict.py lines 413, 424-428 (normalize_sequence, statement by statement)
\* and 279 on vector j of the corpus, with the stats normalize_features
\* returned
NormInfer(j) ==
    /\ prog = "normalize" /\ npc = "infer" /\ j \notin DOMAIN ninfer
    /\ \E sequence32 \in {Float32Array(<<ncorpus[j]>>)} :
       \E min_arr \in {Float64Array(nfit.min_vals)},
          max_arr \in {Float64Array(nfit.max_vals)} :
       \E range_arr \in {RangeArr64(min_arr, max_arr)} :
       \E normalized \in {ClippedRows64(sequence32, min_arr, range_arr)} :
       \E x \in {FloatTensor(normalized)} :
            ninfer' = (j :> x[1]) @@ ninfer
    /\ UNCHANGED <<ncorpus, nfit, npc, mainVars, callVars, calibrateVars, loadVars, fitVars>>

InitNormalize ==
    /\ prog = "normalize" /\ MainIdle /\ CallIdle /\ CalibrateIdle /\ LoadIdle /\ FitIdle
    /\ ncorpus \in {CorpusOf(c) : c \in UNION {Columns(n) : n \in 1..MaxRows}}
    /\ nfit = <<>> /\ ninfer = <<>>
    /\ npc = "fit"

NextNormalize == NormFit \/ \E j \in 1..Len(ncorpus) : NormInfer(j)

SpecNormalize == InitNormalize /\ [][NextNormalize]_vars

----------------------------------------------------------------------------
(* Properties *)

InUnit(x) == ~IsNaN(x) /\ ~RLess(x, Zero) /\ ~RLess(One, x)

\* the run has a reply of the model-based scorer in `result`
ModelVerdict ==
    /\ prog = "predict" /\ pc \in {"output", "done"}
    /\ loaded.ok
    /\ "raw_mse" \in DOMAIN result
    /\ result["raw_mse"].t = "float"

\* predict_anomaly got past its shape checks: `window` is what the autoencoder saw
WindowBuilt ==
    /\ prog = "predict" /\ pc \in {"output", "done"}
    /\ loaded.ok /\ window # <<>>

ExpectedLength == Get(loaded.config.sequence_length, DEFAULT_SEQUENCE_LENGTH)

\* C1: for every error e >= 0 and threshold t > 0 the model-based reply has
\* score = min(1, e/(2t)), confidence = min(1, 1/2 + |e-t|/(2t)) and
\* is_anomaly = (e > t), strictly; e = t gives 1/2, 1/2, false; e = 2t gives
\* score 1; e = t/2 gives score 1/4.
C1_ScoringFormula ==
    ModelVerdict =>
        LET e == result["raw_mse"].v
            t == result["threshold"].v
            s == result["score"].v
            c == result["confidence"].v
            a == result["is_anomaly"].v
            dn == IF e[1] * t[2] >= t[1] * e[2]
                  THEN e[1] * t[2] - t[1] * e[2] ELSE t[1] * e[2] - e[1] * t[2]
            dd == e[2] * t[2]
        IN  /\ t = loaded.threshold.v
            /\ (t[1] > 0 /\ t[2] > 0) =>
                /\ IF e[1] * t[2] >= 2 * t[1] * e[2]
                   THEN s[1] = s[2]
                   ELSE s[1] * 2 * t[1] * e[2] = e[1] * s[2] * t[2]
                /\ IF dn * t[2] >= t[1] * dd
                   THEN c[1] = c[2]
                   ELSE (2 * c[1] - c[2]) * t[1] * dd = dn * c[2] * t[2]
                /\ a = (e[1] * t[2] > t[1] * e[2])
                /\ (e[1] * t[2] = t[1] * e[2]) =>
                        2 * s[1] = s[2] /\ 2 * c[1] = c[2] /\ a = FALSE
                /\ (e[1] * t[2] = 2 * t[1] * e[2]) => s[1] = s[2]
                /\ (2 * e[1] * t[2] = t[1] * e[2]) => 4 * s[1] = s[2]

\* a model-based reply whose error equals its positive threshold
C1_Witness ==
    /\ ModelVerdict /\ pc = "done"
    /\ result["threshold"].v[1] > 0
    /\ REq(result["raw_mse"].v, result["threshold"].v)
    /\ REq(result["score"].v, Half)

\* C2: every reply emitted by main() carries a score in [0,1] and a
\* confidence in [0,1], whichever path produced it.
C2_RepliesBounded ==
    \A k \in 1..Len(emitted) :
        /\ "score" \in DOMAIN emitted[k]
        /\ emitted[k]["score"].t = "float"
        /\ InUnit(emitted[k]["score"].v)
        /\ "confidence" \in DOMAIN emitted[k]
        /\ emitted[k]["confidence"].t = "float"
        /\ InUnit(emitted[k]["confidence"].v)

\* C3: the window the scorer evaluates has exactly L vectors: the history
\* padded with copies of its last vector when n < L, the last L vectors of
\* the history when n > L, the history itself when n = L.
C3_PadTruncate ==
    WindowBuilt =>
        LET hist == sequence.rows
            n == Len(hist)
            L == ExpectedLength
        IN  /\ n >= 1
            /\ Len(window) = L
            /\ \A j \in 1..L :
                window[j] = IF n < L THEN (IF j <= n THEN hist[j] ELSE hist[n])
                            ELSE hist[n - L + j]

\* an 8-vector history of distinct vectors cut to its last 5
C3_Witness ==
    /\ WindowBuilt
    /\ Len(sequence.rows) = 8 /\ ExpectedLength = 5
    /\ sequence.rows[4] # sequence.rows[1]
    /\ window[1] = sequence.rows[4] /\ window[5] = sequence.rows[8]

\* C4: create_sequences on a stream of N >= L+1 vectors yields exactly
\* N-L+1 windows of L vectors of F features; window i is the contiguous
\* vectors i..i+L-1 and its last vector is the stream's vector i+L-1.
C4_TrainingWindows ==
    (prog = "train" /\ pc = "t_split") =>
        LET data == tnorm[1].normalized
            N == Len(data)
            L == targs
        IN  /\ N >= L + 1
            /\ Len(sequences) = N - L + 1
            /\ \A w \in 1..Len(sequences) :
                /\ Len(sequences[w]) = L
                /\ \A j \in 1..L :
                    /\ Len(sequences[w][j]) = FEATURE_COUNT
                    /\ sequences[w][j] = data[w + j - 1]
                /\ sequences[w][L] = data[w + L - 1]

\* at least three windows over a stream of distinct vectors
C4_Witness ==
    /\ prog = "train" /\ pc = "t_split"
    /\ Len(sequences) >= 3 /\ targs >= 2
    /\ tnorm[1].normalized[1] # tnorm[1].normalized[2]

\* no element of the request is NaN (a missing `sequence` decodes to NaN)
NumericInput == sequence_data.kind # "none"

\* C5: with max[i] >= min[i], every value normalize_sequence returns lies in
\* [0,1], whatever corpus the stats were fitted on.
C5_NormalizedInUnit ==
    (prog = "predict" /\ pc = "predict" /\ NumericInput) =>
        /\ \A i \in 1..FEATURE_COUNT :
            ~RLess(loaded.normalization.max_vals[i], loaded.normalization.min_vals[i])
        /\ \A r \in 1..Len(sequence.rows) :
            \A i \in 1..Len(sequence.rows[r]) : InUnit(sequence.rows[r][i])

\* a raw value above its feature's max that came out as 1, next to one below
\* its feature's min that came out as 0
C5_Witness ==
    /\ prog = "predict" /\ pc = "predict" /\ sequence_data.kind = "list2"
    /\ \E r \in 1..Len(sequence.rows) : \E i, k \in 1..FEATURE_COUNT :
        /\ Len(sequence_data.rows[r]) = FEATURE_COUNT
        /\ RLess(loaded.normalization.max_vals[i], sequence_data.rows[r][i])
        /\ RLess(loaded.normalization.min_vals[i], loaded.normalization.max_vals[i])
        /\ sequence.rows[r][i] = One
        /\ RLess(sequence_data.rows[r][k], loaded.normalization.min_vals[k])
        /\ sequence.rows[r][k] = Zero

ZeroRange(min_vals, max_vals, i) == REq(min_vals[i], max_vals[i])

\* C6 as stated: a feature with max[i] = min[i] normalizes to 0 for every raw
\* value, in normalize_features and in normalize_sequence.
C6_ZeroRangeIsZero ==
    /\ (prog = "train" /\ pc = "t_windows") =>
        \A i \in 1..FEATURE_COUNT :
            ZeroRange(tnorm[1].min_vals, tnorm[1].max_vals, i) =>
                \A j \in 1..Len(raw_data) : REq(tnorm[1].normalized[j][i], Zero)
    /\ (prog = "predict" /\ pc = "predict" /\ NumericInput) =>
        \A i \in 1..FEATURE_COUNT :
            ZeroRange(loaded.normalization.min_vals, loaded.normalization.max_vals, i) =>
                \A r \in 1..Len(sequence.rows) : REq(sequence.rows[r][i], Zero)

\* C6 amended: a feature with max[i] = min[i] normalizes to 0 for every value
\* of the corpus in normalize_features; in normalize_sequence it normalizes to
\* v - min[i] clamped to [0,1]: 0 when v <= min[i], v - min[i] when
\* 0 < v - min[i] < 1, and 1 when v - min[i] >= 1.
C6_ZeroRangeClamped ==
    /\ (prog = "train" /\ pc = "t_windows") =>
        \A i \in 1..FEATURE_COUNT :
            ZeroRange(tnorm[1].min_vals, tnorm[1].max_vals, i) =>
                \A j \in 1..Len(raw_data) : REq(tnorm[1].normalized[j][i], Zero)
    /\ (prog = "predict" /\ pc = "predict" /\ NumericInput) =>
        \A i \in 1..FEATURE_COUNT :
            ZeroRange(loaded.normalization.min_vals, loaded.normalization.max_vals, i) =>
                \A r \in 1..Len(sequence.rows) :
                    LET v == At(sequence_data.rows[r], i)
                        m == loaded.normalization.min_vals[i]
                        x == sequence.rows[r][i]
                        num == v[1] * m[2] - m[1] * v[2]
                        den == v[2] * m[2]
                    IN  IF num <= 0 THEN x[1] = 0 /\ x[2] > 0
                        ELSE IF num >= den THEN x[1] = x[2] /\ x[2] > 0
                        ELSE x[1] * den = num * x[2]

\* a live value above the constant a zero-range feature was fitted on, which
\* does not normalize to 0
C6_Witness ==
    /\ prog = "predict" /\ pc = "predict" /\ sequence_data.kind = "list2"
    /\ \E r \in 1..Len(sequence.rows) : \E i \in 1..FEATURE_COUNT :
        /\ Len(sequence_data.rows[r]) = FEATURE_COUNT
        /\ ZeroRange(loaded.normalization.min_vals, loaded.normalization.max_vals, i)
        /\ RLess(loaded.normalization.min_vals[i], sequence_data.rows[r][i])
        /\ RLess(Zero, sequence.rows[r][i])

\* C7: normalize_sequence leaves min_vals and max_vals as they were loaded
\* from the package, also when a feature has zero range.
C7_StatsUnchanged ==
    (prog = "predict" /\ loaded.ok) =>
        loaded.normalization = LoadModel(fs.pkg).normalization

\* normalization has run with stats that hold a zero-range feature
C7_Witness ==
    /\ prog = "predict" /\ pc = "predict" /\ loaded.ok
    /\ \E i \in 1..FEATURE_COUNT :
        ZeroRange(loaded.normalization.min_vals, loaded.normalization.max_vals, i)
    /\ \E i \in 1..FEATURE_COUNT :
        ~ZeroRange(loaded.normalization.min_vals, loaded.normalization.max_vals, i)

\* the request's sequence is a JSON array of arrays of exactly F numbers
WellShapedRequest ==
    /\ sequence_data.kind = "list2"
    /\ Len(sequence_data.rows[1]) = FEATURE_COUNT

\* C8: with an existing package (15-entry stats), a request whose vectors do
\* not have exactly 15 features, or whose sequence is not 2-dimensional, ends
\* in an error reply and never in a model-based score.
C8_ShapeMismatchRejected ==
    (prog = "predict" /\ pc = "done" /\ loaded.ok /\ ~WellShapedRequest) =>
        \A k \in 1..Len(emitted) :
            /\ "error" \in DOMAIN emitted[k]
            /\ "raw_mse" \notin DOMAIN emitted[k]

\* C9: every reply with an error field also has score 0 and is_anomaly false,
\* and no run that ends in an error crashes.
C9_ErrorVerdictShape ==
    /\ \A k \in 1..Len(emitted) :
        "error" \in DOMAIN emitted[k] =>
            /\ "score" \in DOMAIN emitted[k]
            /\ REq(emitted[k]["score"].v, Zero)
            /\ "is_anomaly" \in DOMAIN emitted[k]
            /\ emitted[k]["is_anomaly"].v = FALSE
    /\ (prog = "predict" /\ pc = "crashed") => "error" \notin DOMAIN result

\* C10: every run of main() ends having emitted exactly one reply.
C10_ExactlyOneReply ==
    (prog = "predict" /\ pc \in {"done", "crashed"}) => Len(emitted) = 1

\* the dispatch of lines 420-434 has run on a 2-dimensional window
Dispatched ==
    /\ prog = "predict" /\ pc \in {"normalize", "predict", "output", "done", "crashed"}
    /\ Ndim(sequence) = 2

\* no model path in the request, no file at the path, or a file that cannot be read
MissingModel == ~model_path.given \/ fs.state \in {"absent", "corrupt"}

\* C11: whenever the model package is missing (no model path, no file at the
\* path, or an unreadable file) the request is not answered with an error: the
\* raw window is scored by the heuristic scorer and the reply carries the
\* warning and the heuristic label.
C11_MissingModelFallsBack ==
    (Dispatched /\ MissingModel) =>
        /\ "error" \notin DOMAIN result
        /\ "warning" \in DOMAIN result
        /\ "method" \in DOMAIN result /\ result["method"] = PyStr("heuristic")
        /\ result["score"] = SimplePredict(Ensure2D(NpArray(sequence_data)))["score"]

\* the heuristic scorer has produced the verdict in `result` for a window of
\* F-feature vectors
HeuristicVerdictReady ==
    /\ prog = "predict" /\ pc = "output"
    /\ "method" \in DOMAIN result
    /\ sequence.shape[2] = FEATURE_COUNT

\* the positions of the last vector that exceed their thresholds
Exceeding(rows) ==
    {i \in 1..FEATURE_COUNT : RLess(Raw(HeuristicThresholds[i]), rows[Len(rows)][i])}

\* the positions that are larger in the last vector than in the first
Rising(rows) == {i \in 1..FEATURE_COUNT : RLess(rows[1][i], rows[Len(rows)][i])}

\* C12: the heuristic verdict of a 2-D window is made of
\* counter = number of positions whose last value is strictly above its
\* threshold, plus exactly 2 iff the window has more than one vector and more
\* than 70% of the features are strictly larger in the last vector than in the
\* first; max_excess = the largest (value - threshold)/threshold over the
\* exceeding positions, 0 if none; score = min(1, counter/10 + 0.3*max_excess);
\* is_anomaly = (score > 0.6).
C12_HeuristicFormula ==
    HeuristicVerdictReady =>
        LET rows == sequence.rows
            last == rows[Len(rows)]
            exc == Exceeding(rows)
            trend == Len(rows) > 1 /\ 10 * Cardinality(Rising(rows)) > 7 * FEATURE_COUNT
            counter == Cardinality(exc) + (IF trend THEN 2 ELSE 0)
            excess(i) == RDiv(RSub(last[i], Raw(HeuristicThresholds[i])),
                              Raw(HeuristicThresholds[i]))
            max_excess ==
                IF exc = {} THEN Zero
                ELSE excess(CHOOSE i \in exc : \A k \in exc : ~RLess(excess(i), excess(k)))
            sum == RAdd(<<counter, 10>>, RMul(<<3, 10>>, max_excess))
            score == IF RLess(sum, One) THEN sum ELSE One
        IN  /\ HeuristicCounters(sequence).anomaly_count = counter
            /\ REq(HeuristicCounters(sequence).max_excess, max_excess)
            /\ REq(result["score"].v, score)
            /\ result["is_anomaly"].v = RLess(<<6, 10>>, score)

\* a three-vector window with one exceeding position and the trend rule
\* firing on 11 of 15 features: score 3/10 + 0.3 * 1/2 = 9/20
C12_Witness ==
    /\ HeuristicVerdictReady
    /\ Len(sequence.rows) = 3
    /\ Cardinality(Exceeding(sequence.rows)) = 1
    /\ Cardinality(Rising(sequence.rows)) = 11
    /\ REq(result["score"].v, <<9, 20>>)
    /\ result["is_anomaly"].v = FALSE

\* every value of the window is 0
AllZero(rows) ==
    \A j \in 1..Len(rows) : \A i \in 1..FEATURE_COUNT : REq(rows[j][i], Zero)

\* C13 as stated: an all-zero window scores 0.0, not anomalous; a window whose
\* last vector exceeds all 15 thresholds ends with anomaly counter 15 and
\* score exactly 1.0, anomalous.
C13_CounterFifteen ==
    HeuristicVerdictReady =>
        /\ AllZero(sequence.rows) =>
            REq(result["score"].v, Zero) /\ result["is_anomaly"].v = FALSE
        /\ Cardinality(Exceeding(sequence.rows)) = FEATURE_COUNT =>
            /\ HeuristicCounters(sequence).anomaly_count = 15
            /\ REq(result["score"].v, One) /\ result["is_anomaly"].v = TRUE

\* C13 amended: an all-zero window scores 0.0, not anomalous; a window whose
\* last vector exceeds all 15 thresholds scores exactly 1.0, anomalous, with
\* anomaly counter 15 when it has one vector or at most 70% of its features
\* rose from the first vector to the last, and 17 otherwise.
C13_ZeroAndSaturated ==
    HeuristicVerdictReady =>
        /\ AllZero(sequence.rows) =>
            REq(result["score"].v, Zero) /\ result["is_anomaly"].v = FALSE
        /\ Cardinality(Exceeding(sequence.rows)) = FEATURE_COUNT =>
            /\ HeuristicCounters(sequence).anomaly_count =
                    IF Len(sequence.rows) > 1
                       /\ 10 * Cardinality(Rising(sequence.rows)) > 7 * FEATURE_COUNT
                    THEN 17 ELSE 15
            /\ REq(result["score"].v, One) /\ result["is_anomaly"].v = TRUE

\* a window of several vectors whose last vector exceeds all 15 thresholds
\* after an all-zero first vector
C13_Witness ==
    /\ HeuristicVerdictReady
    /\ Len(sequence.rows) > 1
    /\ Cardinality(Exceeding(sequence.rows)) = FEATURE_COUNT
    /\ \A i \in 1..FEATURE_COUNT : REq(sequence.rows[1][i], Zero)
    /\ REq(result["score"].v, One)

\* the size check has run, or is about to, on a corpus of fewer than L+1 vectors
ShortCorpus ==
    /\ prog = "train" /\ pc \in {"t_check", "t_exit1"}
    /\ Len(raw_data) < targs + 1

\* C14: a training run whose corpus has fewer than L+1 vectors (an empty
\* corpus included) ends at the size check: from there on nothing is
\* normalized, windowed or trained, the file at the package path is left as
\* it was, no summary is emitted, and the run stays ended.
C14_InsufficientDataFails ==
    [][ShortCorpus =>
          /\ pc' = "t_exit1"
          /\ fs' = fs /\ emitted' = <<>>
          /\ tnorm' = <<>> /\ sequences' = <<>> /\ tfit' = <<>>]_vars

\* a run ended by the size check on a corpus of exactly L vectors
C14_Witness ==
    /\ prog = "train" /\ pc = "t_exit1"
    /\ targs >= 2 /\ Len(raw_data) = targs
    /\ tnorm = <<>> /\ emitted = <<>>

\* the checkpoint holds a config with all five fields
ConfigComplete(p) ==
    /\ p.config # <<>>
    /\ \A f \in ConfigFields : p.config[1][f] # <<>>

\* the checkpoint holds config, normalization and threshold
CompletePackage(p) ==
    /\ ConfigComplete(p)
    /\ p.normalization # <<>>
    /\ p.threshold # <<>>

\* C15: in every state of a training run the file at the package path either
\* does not exist or is a complete package (config, weights, normalization,
\* threshold), also while the run is saving and after a save that failed.
C15_AtomicPublish ==
    prog = "train" =>
        \/ fs.state = "absent"
        \/ fs.state = "ok" /\ CompletePackage(fs.pkg)

\* the values of a complete config
ConfigValues(p) == [f \in ConfigFields |-> p.config[1][f][1]]

\* the config is complete and the weights are those of the architecture it
\* names (sequence_length shapes no weight)
ConfigAgrees(p) ==
    /\ ConfigComplete(p)
    /\ \E m \in ModelTypes : TrainModel(m, ConfigValues(p)).state_dict = p.model_state_dict

\* C16: when the package's config is absent, lacks a field or disagrees with
\* the architecture of the saved weights, load_model fails: the run holds no
\* loaded model and no reply of it carries a model-based score.
C16_ConfigMismatchFatal ==
    (prog = "predict" /\ fs.state = "ok" /\ ~ConfigAgrees(fs.pkg)) =>
        /\ ~loaded.ok
        /\ \A k \in 1..Len(emitted) : "raw_mse" \notin DOMAIN emitted[k]

\* C17: a graph is written only for a package whose config is complete, and
\* the exported model then has the config's input_dim and sequence_length and
\* the weights' shapes of the config and variant tag; this holds for
\* export_model.py and quick_export.py.
C17_NoDefaultDrift ==
    (prog \in {"export", "quick"} /\ graph # <<>>) =>
        /\ ConfigComplete(fs.pkg)
        /\ loaded.model.input_dim = ConfigValues(fs.pkg).input_dim
        /\ loaded.model.sequence_length = ConfigValues(fs.pkg).sequence_length
        /\ loaded.model.state_dict =
              TrainModel(Get(fs.pkg.model_type, "lstm"), ConfigValues(fs.pkg)).state_dict

\* C18: every exported graph has exactly one input, input_sequence, of shape
\* (batch, L, F) and one output, reconstructed_sequence, of the same shape;
\* only the batch axis is dynamic and L and F are the sequence_length and
\* input_dim held by the package's config.
C18_GraphContract ==
    (prog \in {"export", "quick"} /\ graph # <<>>) =>
        /\ Len(graph.inputs) = 1 /\ graph.inputs[1].name = "input_sequence"
        /\ Len(graph.outputs) = 1 /\ graph.outputs[1].name = "reconstructed_sequence"
        /\ graph.outputs[1].shape = graph.inputs[1].shape
        /\ Len(graph.inputs[1].shape) = 3
        /\ graph.inputs[1].shape[1] = "batch_size"
        /\ fs.pkg.config # <<>>
        /\ fs.pkg.config[1].sequence_length = <<graph.inputs[1].shape[2]>>
        /\ fs.pkg.config[1].input_dim = <<graph.inputs[1].shape[3]>>

\* C19: every export that succeeds has written a sidecar holding the variant
\* tag, the config, the threshold and the normalization min_vals/max_vals,
\* each the package's own whenever the package holds it; this holds for
\* export_model.py and quick_export.py.
C19_SidecarMirrorsPackage ==
    (prog \in {"export", "quick"} /\ pc = "x_done") =>
        /\ sidecar # <<>> /\ sidecar.state = "ok"
        /\ "model_type" \in DOMAIN sidecar.meta
        /\ fs.pkg.model_type # <<>> => sidecar.meta.model_type = fs.pkg.model_type[1]
        /\ fs.pkg.config # <<>> => sidecar.meta.config = fs.pkg.config[1]
        /\ fs.pkg.threshold # <<>> => sidecar.meta.threshold.v = fs.pkg.threshold[1].v
        /\ fs.pkg.normalization # <<>> => sidecar.meta.normalization = fs.pkg.normalization

\* the package is what train.py saves for its variant tag and config
TrainedPackage(p) ==
    /\ p.model_type # <<>> /\ CompletePackage(p)
    /\ p = SaveDict(p.model_type[1], ConfigValues(p), p.normalization[1], p.threshold[1])

\* the parts of a model that fix its reconstruction
Architecture(model) ==
    [input_dim |-> model.input_dim, state_dict |-> model.state_dict,
     forward |-> model.forward]

\* C20: a package saved by train.py, of either variant, loads into the
\* scorer and into both export scripts, and the model each of them builds has
\* the parameters (names and shapes) and forward structure of the model that
\* was trained; the scorer's reconstruction error is the mean of the squared
\* differences over the time and feature axes, as in training.
C20_SameArchitecture ==
    (fs.state = "ok" /\ TrainedPackage(fs.pkg)) =>
        LET trained == TrainModel(fs.pkg.model_type[1], ConfigValues(fs.pkg))
        IN  /\ prog = "predict" =>
                /\ result # ExceptResult("load")
                /\ Architecture(PredictModel(fs.pkg)) = Architecture(trained)
                /\ PredictModel(fs.pkg).reconstruction_error = trained.reconstruction_error
            /\ prog \in {"export", "quick"} =>
                /\ ~(pc = "x_crashed" /\ graph = <<>>)
                /\ loaded.ok => Architecture(loaded.model) = Architecture(trained)

\* what predict.py answers to a request when it runs alone on the files
AloneResult(req, disk) ==
    LET file == disk[req.model_path]
        seq == Ensure2D(NpArray([kind |-> "list2", rows |-> req.rows]))
    IN  IF file.state = "absent"
        THEN ("warning" :> PyStr("Model not found, using heuristic")) @@ SimplePredict(seq)
        ELSE IF ~(file.state = "ok" /\ LoadModel(file.pkg).ok)
        THEN ExceptResult("load")
        ELSE LET m == LoadModel(file.pkg)
                 n == NormalizeSequence(seq, m.normalization.min_vals,
                                        m.normalization.max_vals)
                 r == PredictAnomaly(n.value, m.threshold, m.config, req.mse)
             IN  IF n.raised THEN ExceptResult("broadcast")
                 ELSE IF r.raised THEN ExceptResult("division")
                 ELSE r.result

\* C21: in every interleaving of scoring calls that each bring their own
\* model path and window, the verdict of every call is the verdict the same
\* request gets when it runs alone; what a call holds of config, threshold and
\* normalization is what the package at its own path holds; and no step of a
\* call changes a package file.
C21_Stateless ==
    /\ [](prog = "calls" =>
            \A c \in Calls :
                /\ calls[c].pc \in {"output", "done", "crashed"} =>
                        frames[Frame(c)].result = AloneResult(calls[c].request, files)
                /\ calls[c].pc \in {"normalize", "predict"} =>
                        frames[Frame(c)].loaded =
                            LoadModel(files[calls[c].request.model_path].pkg))
    /\ [][files' = files]_vars

\* two finished calls that used different packages and got different
\* model-based verdicts for the same window and the same error
C21_Witness ==
    /\ prog = "calls"
    /\ calls[1].pc = "done" /\ calls[2].pc = "done"
    /\ calls[1].request.model_path # calls[2].request.model_path
    /\ calls[1].request.rows = calls[2].request.rows
    /\ calls[1].request.mse = calls[2].request.mse
    /\ frames[1].loaded.ok /\ frames[2].loaded.ok
    /\ frames[1].result["is_anomaly"] # frames[2].result["is_anomaly"]

\* the threshold has been calibrated
Calibrated == tfit # <<>> /\ "threshold" \in DOMAIN tfit[1]

\* C22: a training run prints its summary (success, package path, variant, L,
\* F, threshold, best loss, epochs) only after training, then calibration,
\* then the write of the package have completed; the summary's threshold is
\* the threshold stored in the package, the stats stored in the package are
\* the stats the training windows were normalized with, and a run that fails
\* prints no summary.
C22_SummaryAfterPublish ==
    /\ [](prog = "train" =>
            /\ pc \in {"t_exit1", "t_crashed"} => emitted = <<>>
            /\ emitted # <<>> =>
                /\ pc = "t_done" /\ Len(emitted) = 1
                /\ DOMAIN emitted[1] =
                        {"success", "model_path", "model_type", "sequence_length",
                         "features", "threshold", "best_loss", "epochs"}
                /\ emitted[1]["success"] = PyBool(TRUE)
                /\ emitted[1]["model_type"].v = fs.pkg.model_type[1]
                /\ emitted[1]["sequence_length"].v = fs.pkg.config[1].sequence_length[1]
                /\ emitted[1]["features"].v = FEATURE_COUNT
                /\ fs.state = "ok" /\ Calibrated
                /\ emitted[1]["threshold"].v = fs.pkg.threshold[1].v
                /\ fs.pkg.threshold[1] = tfit[1].threshold
                /\ LET stats == fs.pkg.normalization[1]
                   IN  sequences =
                          CreateSequences(
                              ScaledRows(raw_data, stats.min_vals,
                                         RangeVals(stats.min_vals, stats.max_vals)),
                              targs))
    /\ [][prog = "train" =>
            /\ (tfit' # tfit /\ "threshold" \in DOMAIN tfit'[1]) =>
                    tfit # <<>> /\ "history" \in DOMAIN tfit[1] /\ fs' = fs
            /\ fs' # fs => Calibrated /\ tfit' = tfit /\ emitted = <<>>
            /\ emitted' # emitted => fs.state = "ok" /\ fs' = fs /\ tfit' = tfit]_vars

\* a finished run whose summary carries a positive calibrated threshold, with
\* a constant feature next to a varying one in the corpus
C22_Witness ==
    /\ prog = "train" /\ pc = "t_done" /\ Len(emitted) = 1
    /\ fs.state = "ok"
    /\ RLess(Zero, emitted[1]["threshold"].v)
    /\ \E i, k \in 1..FEATURE_COUNT :
        /\ ZeroRange(tnorm[1].min_vals, tnorm[1].max_vals, i)
        /\ ~ZeroRange(tnorm[1].min_vals, tnorm[1].max_vals, k)

\* C23: on one list of reconstruction errors the calibrated threshold does
\* not decrease when the percentile grows (the 99th is at least the 95th),
\* and it lies between the smallest and the largest error of the list.
C23_CalibrationMonotone ==
    prog = "calibrate" =>
        /\ \A p1, p2 \in DOMAIN thresholds :
                p1 <= p2 => ~RLess(thresholds[p2], thresholds[p1])
        /\ \A p \in DOMAIN thresholds :
                /\ \E k \in 1..Len(all_errors) : ~RLess(thresholds[p], all_errors[k])
                /\ \E k \in 1..Len(all_errors) : ~RLess(all_errors[k], thresholds[p])

\* three unsorted errors whose 95th and 99th percentiles differ and fall
\* strictly between two of them
C23_Witness ==
    /\ prog = "calibrate" /\ Len(all_errors) = 3
    /\ RLess(all_errors[3], all_errors[1]) /\ RLess(all_errors[1], all_errors[2])
    /\ {95, 99} \subseteq DOMAIN thresholds
    /\ RLess(thresholds[95], thresholds[99])
    /\ RLess(all_errors[1], thresholds[95]) /\ RLess(thresholds[99], all_errors[2])

\* the record holds a features array of exactly 15 elements
HasFeatureArray(line) ==
    /\ line.json = "object"
    /\ "features" \in DOMAIN line.record
    /\ line.record["features"].t = "list"
    /\ Len(line.record["features"].v) = 15

\* the text holds the keyword, whatever the case of its letters
HoldsMalicious(chars) ==
    \E k \in 0..(Len(chars) - Len(Malicious)) :
        \A j \in 1..Len(Malicious) :
            \/ chars[k + j] = Malicious[j]
            \/ \E u \in 1..Len(UpperCase) :
                    UpperCase[u] = chars[k + j] /\ LowerCase[u] = Malicious[j]

\* user_label when it is present and not empty, threat otherwise
EffectiveLabel(record) ==
    IF "user_label" \in DOMAIN record /\ record["user_label"].t # "null"
       /\ record["user_label"].v # <<>>
    THEN record["user_label"]
    ELSE JGet(record, "threat")

\* the rows the first k lines contribute: one per record with a features
\* array of 15 elements, positive iff its effective label holds the keyword
RECURSIVE LabelledRows(_, _)
LabelledRows(lines, k) ==
    IF k = 0 THEN <<>>
    ELSE IF HasFeatureArray(lines[k])
         THEN Append(LabelledRows(lines, k - 1),
                     [features |-> lines[k].record["features"].v,
                      target |-> IF EffectiveLabel(lines[k].record).t = "str"
                                    /\ HoldsMalicious(EffectiveLabel(lines[k].record).v)
                                 THEN 1 ELSE 0])
         ELSE LabelledRows(lines, k - 1)

\* C24: load_data turns every record with a features array of exactly 15
\* elements into a row, positive (1) iff its effective label (user_label when
\* present and non-empty, threat otherwise) is a text containing "malicious"
\* in any case; every other record and every line that is not valid JSON is
\* skipped, and none of them stops the load.
C24_LabelsAndSkips ==
    prog = "load" =>
        /\ lpc \in {"lines", "returned"} => ldata = LabelledRows(jsonl.lines, lineno)
        /\ lpc = "raised" => jsonl.lines[lineno].json \notin {"invalid", "object"}

----------------------------------------------------------------------------
\* the losses "best" tracks: validation losses, or training losses without
\* validation data
Governing == IF fargs.val_loader THEN history.val_loss ELSE history.train_loss

\* C25: after one or more epochs the recorded best loss is the minimum of the
\* validation losses (of the training losses when there is no validation
\* data) over the epochs run, the recorded best epoch is the earliest epoch
\* with that loss, and the history holds one training loss per epoch and,
\* with validation data, one validation loss per epoch.
C25_BestLoss ==
    prog = "fit" /\ fpc \in {"loop", "returned"} /\ epoch >= 1 =>
        /\ Len(history.train_loss) = epoch
        /\ Len(history.val_loss) = IF fargs.val_loader THEN epoch ELSE 0
        /\ \A i \in 1..epoch : ~RLess(Governing[i], history.best_loss)
        /\ history.best_epoch \in 0..(epoch - 1)
        /\ REq(Governing[history.best_epoch + 1], history.best_loss)
        /\ \A i \in 1..history.best_epoch : RLess(history.best_loss, Governing[i])

\* a finished run with validation data whose minimum came after the first
\* epoch and came again later
C25_Witness ==
    /\ prog = "fit" /\ fpc = "returned" /\ fargs.val_loader
    /\ history.best_epoch >= 1
    /\ \E i \in (history.best_epoch + 2)..epoch :
            REq(history.val_loss[i], history.best_loss)
    /\ \E i \in 1..epoch : ~REq(history.train_loss[i], history.val_loss[i])

\* the scheduler's reference value after k epochs: the last validation loss
\* that was below 0.9999 times the reference before it
RECURSIVE PlateauBest(_, _)
PlateauBest(vals, k) ==
    IF k = 0 THEN <<1, 0>>
    ELSE LET before == PlateauBest(vals, k - 1)
         IN  IF RLess(vals[k], RMul(<<9999, 10000>>, before)) THEN vals[k] ELSE before

\* the consecutive epochs up to epoch k whose validation loss was not below
\* 0.9999 times the reference
RECURSIVE StalledFor(_, _)
StalledFor(vals, k) ==
    IF k = 0 THEN 0
    ELSE IF RLess(vals[k], RMul(<<9999, 10000>>, PlateauBest(vals, k - 1)))
         THEN 0
         ELSE StalledFor(vals, k - 1) + 1

\* the consecutive epochs up to epoch k whose validation loss was not below
\* every validation loss before it
RECURSIVE NotImprovedFor(_, _)
NotImprovedFor(vals, k) ==
    IF k = 0 THEN 0
    ELSE IF \A i \in 1..(k - 1) : RLess(vals[k], vals[i])
         THEN 0
         ELSE NotImprovedFor(vals, k - 1) + 1

\* C26 as stated: the learning rate never rises, is halved at the end of an
\* epoch that completes 10 consecutive epochs without an improvement of the
\* validation loss, and changes at no other time.
C26_HalvedAfterTen ==
    [][prog = "fit" /\ fpc = "loop" /\ epoch' = epoch + 1 =>
        LET n == NotImprovedFor(history'.val_loss, Len(history'.val_loss))
        IN  /\ ~RLess(lr, lr')
            /\ lr' = IF n > 0 /\ n % 10 = 0 THEN RMul(lr, <<1, 2>>) ELSE lr]_vars

\* C26: the learning rate never rises; with validation data it is halved at
\* the end of every 11th consecutive epoch whose validation loss is not below
\* 0.9999 times the scheduler's reference, provided the rate is above 2e-8
\* (so that halving lowers it by more than 1e-8); it changes at no other
\* time, and never without validation data.
C26_LearningRate ==
    [][prog = "fit" /\ fpc = "loop" /\ epoch' = epoch + 1 =>
        LET n == StalledFor(history'.val_loss, Len(history'.val_loss))
        IN  /\ ~RLess(lr, lr')
            /\ lr' = IF n > 0 /\ n % 11 = 0 /\ RLess(<<2, 1>>, lr)
                     THEN RMul(lr, <<1, 2>>) ELSE lr]_vars

\* a run whose learning rate has been halved
C26_Witness ==
    /\ prog = "fit" /\ fpc \in {"loop", "returned"}
    /\ REq(lr, RMul(fargs.learning_rate, <<1, 2>>))

----------------------------------------------------------------------------
\* C27: on the model-based path, for every error e >= 0 and threshold t > 0,
\* is_anomaly is true iff score > 1/2, and no larger error gets a smaller
\* score; on the heuristic path is_anomaly is true iff score > 6/10.
C27_OneCutOff ==
    /\ ModelVerdict /\ RLess(Zero, result["threshold"].v) =>
        /\ result["is_anomaly"].v = RLess(Half, result["score"].v)
        /\ \A e \in Errors :
                /\ RLess(result["raw_mse"].v, e) =>
                        ~RLess(ScoreOf(e, result["threshold"].v), result["score"].v)
                /\ RLess(e, result["raw_mse"].v) =>
                        ~RLess(result["score"].v, ScoreOf(e, result["threshold"].v))
    /\ HeuristicVerdictReady =>
            result["is_anomaly"].v = RLess(<<6, 10>>, result["score"].v)

\* a model-based reply with a score in (0.5, 0.6], flagged anomalous
C27_Witness ==
    /\ ModelVerdict /\ pc = "done"
    /\ RLess(Zero, result["threshold"].v)
    /\ RLess(Half, result["score"].v) /\ ~RLess(<<6, 10>>, result["score"].v)
    /\ result["is_anomaly"].v = TRUE

----------------------------------------------------------------------------
\* the request's history as main() holds it before normalize_sequence
RawHistory == Ensure2D(NpArray(sequence_data))

\* C28: for a history with F features per vector the window handed to the
\* autoencoder is the history padded/truncated to L first and normalized
\* with the loaded stats afterwards, although the code normalizes the whole
\* history first and pads/truncates afterwards.
C28_OrderIrrelevant ==
    WindowBuilt /\ RawHistory.shape[2] = FEATURE_COUNT =>
        LET cut == PadOrTruncate(RawHistory.rows, ExpectedLength)
            mn == loaded.normalization.min_vals
            mx == loaded.normalization.max_vals
            d(i) == RSub(At(mx, i), At(mn, i))
            rng(i) == IF REq(d(i), Zero) THEN One ELSE d(i)
        IN  window = [j \in 1..ExpectedLength |->
                        [i \in 1..FEATURE_COUNT |->
                            Clip01(RDiv(RSub(cut[j][i], At(mn, i)), rng(i)))]]

\* a history longer than L, of distinct vectors, that normalization changes
C28_Witness ==
    /\ WindowBuilt /\ pc = "done"
    /\ RawHistory.shape[2] = FEATURE_COUNT
    /\ Len(RawHistory.rows) > ExpectedLength
    /\ RawHistory.rows[1] # RawHistory.rows[Len(RawHistory.rows)]
    /\ window # PadOrTruncate(RawHistory.rows, ExpectedLength)
    /\ \E j \in 1..Len(window) : \E i \in 1..FEATURE_COUNT :
            RLess(Zero, window[j][i]) /\ RLess(window[j][i], One)

----------------------------------------------------------------------------
\* the run is past lines 559-561
SplitDone ==
    /\ prog = "train"
    /\ pc \in {"t_fit", "t_calibrate", "t_save", "t_writing", "t_summary",
               "t_done", "t_crashed"}

\* C29: a training run that passed the insufficient-data check (N >= L+1)
\* splits its N-L+1 windows into a non-empty training set, the first
\* floor(0.8*(N-L+1)) windows in order, and a non-empty validation set, the
\* remaining windows in order: no window is in both and none is left out;
\* the threshold is the 95th percentile of the errors of the training
\* windows alone.
C29_SplitPartition ==
    SplitDone =>
        LET n == Len(raw_data) - targs + 1
        IN  /\ Len(raw_data) >= targs + 1
            /\ Len(sequences) = n
            /\ 10 * tsplit <= 8 * n /\ 8 * n < 10 * (tsplit + 1)
            /\ Len(TrainSequences) = tsplit /\ tsplit >= 1
            /\ Len(ValSequences) = n - tsplit /\ n - tsplit >= 1
            /\ \A w \in 1..tsplit : TrainSequences[w] = sequences[w]
            /\ \A w \in 1..(n - tsplit) : ValSequences[w] = sequences[tsplit + w]
            /\ Calibrated =>
                    tfit[1].threshold.v =
                        Percentile([w \in 1..tsplit |-> tfit[1].errors[w]], 95)

\* a calibrated run of at least five windows whose validation windows have
\* larger errors than every training window, so that calibrating on all
\* windows would have given another threshold
C29_Witness ==
    /\ SplitDone /\ Calibrated /\ pc = "t_done"
    /\ Len(sequences) >= 5 /\ tsplit = 4
    /\ \A w \in 1..tsplit :
            RLess(tfit[1].errors[w], tfit[1].errors[Len(sequences)])
    /\ ~REq(tfit[1].threshold.v, Percentile(tfit[1].errors, 95))

----------------------------------------------------------------------------
\* C30: for every vector of the training corpus, the values the inference
\* path builds with the fitted stats (normalize_sequence, then the tensor)
\* are exactly the values normalize_features produced for that vector,
\* zero-range features included.
C30_SameOnCorpus ==
    prog = "normalize" =>
        \A j \in DOMAIN ninfer : ninfer[j] = nfit.normalized[j]

====
